---------------------------- MODULE Spec2Model ----------------------------
(***************************************************************************)
(* A model of the family-photo-song backend: the job store (a key-value    *)
(* dictionary shared by every endpoint), the upload, submit, status, fetch *)
(* and download endpoints, the GPU pipeline task that submit_job spawns,   *)
(* and the text workers the pipeline calls (summary and lyrics with their  *)
(* quality gates and fallback generators).                                 *)
(*                                                                         *)
(* Text is a sequence of characters, each character a one-character        *)
(* string; a character outside ASCII is written as its code point          *)
(* ("U+00E2"; so is the grave accent, "U+0060", which a TLA+ string cannot *)
(* hold).  A Python dict is a function from its keys to their values.      *)
(***************************************************************************)
EXTENDS Integers, Sequences, FiniteSets, TLC

\* ------------------------------------------------------------------ bounds
\* How many jobs the upload endpoints create and how many submit_job calls
\* arrive.
MaxJobs == 1
MaxSubmits == 2

\* ------------------------------------------------------------- characters
Lower == {"a","b","c","d","e","f","g","h","i","j","k","l","m","n","o","p","q","r","s","t","u",
          "v","w","x","y","z"}
Upper == {"A","B","C","D","E","F","G","H","I","J","K","L","M","N","O","P","Q","R","S","T","U",
          "V","W","X","Y","Z"}
Digits == {"0","1","2","3","4","5","6","7","8","9"}
Punct == {"!","\"","#","$","%","&","'","(",")","*","+",",","-",".","/",":",";","<","=",">",
          "?","@","[","\\","]","^","_","U+0060","{","|","}","~"}
\* The characters of the model that lie outside ASCII: the three characters of
\* the mis-encoded dash in the summary prompt and in the lyrics prompt, and
\* the e with an acute accent.
NonAsciiAlpha == {"U+00E2", "U+00E9"}
NonAsciiOther == {"U+20AC", "U+201C"}

\* str.isalpha() of one character.
IsAlpha(c) == c \in Lower \cup Upper \cup NonAsciiAlpha

\* The characters str.split() and str.strip() treat as white space; the form
\* feed stands for those of them that _NON_ASCII_RE matches.
Spaces == {" ", "\t", "\n", "\r", "U+000C"}
IsSpace(c) == c \in Spaces

\* _NON_ASCII_RE matches every character but tab, newline, carriage return
\* and the printable ASCII range 0x20-0x7E.
IsNonAscii(c) == c \notin Lower \cup Upper \cup Digits \cup Punct \cup {" ", "\t", "\n", "\r"}

\* ------------------------------------------------------------ text helpers
Min(a, b) == IF a < b THEN a ELSE b
Max(a, b) == IF a > b THEN a ELSE b

\* text[:n]
Take(text, n) == SubSeq(text, 1, Min(n, Len(text)))

\* pat in text
Contains(text, pat) ==
    \E i \in 1..(Len(text) - Len(pat) + 1) : SubSeq(text, i, i + Len(pat) - 1) = pat

\* len(text.split()): the number of maximal runs of characters that are not
\* white space.
WordCount(text) ==
    Cardinality({i \in 1..Len(text) :
                    /\ ~IsSpace(text[i])
                    /\ (i = 1 \/ IsSpace(text[i - 1]))})

\* sum(ch.isalpha() for ch in text)
AlphaCount(text) == Cardinality({i \in 1..Len(text) : IsAlpha(text[i])})

\* _NON_ASCII_RE.search(text)
HasNonAscii(text) == \E i \in 1..Len(text) : IsNonAscii(text[i])

\* text.strip()
Strip(text) ==
    LET keep == {i \in 1..Len(text) : ~IsSpace(text[i])}
    IN  IF keep = {} THEN <<>>
        ELSE SubSeq(text, CHOOSE i \in keep : \A k \in keep : i <= k,
                          CHOOSE i \in keep : \A k \in keep : i >= k)

\* sep.join(parts)
RECURSIVE Join(_, _)
Join(sep, parts) ==
    IF parts = <<>> THEN <<>>
    ELSE IF Len(parts) = 1 THEN parts[1]
    ELSE parts[1] \o sep \o Join(sep, Tail(parts))

\* ------------------------------------------------------- summary_worker.py
\* What the HTTP call of _call_llmstudio can do: answer with a text (kind
\* "ok"), fail with a requests.exceptions.RequestException (connection error,
\* timeout or HTTP error status: kind "request_error"), or fail with any other
\* exception (a malformed answer, a missing endpoint setting: kind "error").
RequestError == [kind |-> "request_error"]
OtherError == [kind |-> "error"]
Reply(content) == [kind |-> "ok", content |-> content]

\* The result of a call that may raise.
Raised == [raised |-> TRUE]
Returned(v) == [raised |-> FALSE, value |-> v]

PromptSlice == 100

\* _call_llmstudio: the answer's content stripped; on a RequestException the
\* placeholder built from the first 100 characters of the user prompt; any
\* other exception propagates.
_call_llmstudio(user_prompt, reply) ==
    LET PlaceholderHead ==
            <<"G","e","n","e","r","a","t","e","d"," ","r","e","s","p","o","n","s","e"," ","f","o","r",
            ":"," ">>
        PlaceholderTail ==
            <<".", ".", ".">>
    IN
    CASE reply.kind = "ok" -> Returned(Strip(reply.content))
      [] reply.kind = "request_error" ->
            Returned(PlaceholderHead \o Take(user_prompt, PromptSlice) \o PlaceholderTail)
      [] OTHER -> Raised

MinSummaryWords == 8

\* The gate with len(text.split()) <= 8 in place of < 8.
_looks_like_valid_summary_OffByOne(text) ==
    /\ text # <<>>
    /\ ~(5 * AlphaCount(text) < 2 * Max(Len(text), 1))
    /\ ~HasNonAscii(text)
    /\ ~(WordCount(text) <= MinSummaryWords)

\* _looks_like_valid_summary: alpha_ratio < 0.4 is 5 * alpha < 2 * len.
_looks_like_valid_summary(text) ==
    /\ text # <<>>
    /\ ~(5 * AlphaCount(text) < 2 * Max(Len(text), 1))
    /\ ~HasNonAscii(text)
    /\ ~(WordCount(text) < MinSummaryWords)

\* The third template joining every caption instead of captions[:2].
_fallback_summary_AllCaptions(captions) ==
    LET OneCaptionHead ==
            <<"T","h","i","s"," ","i","m","a","g","e"," ","s","h","o","w","s"," ">>
        OneCaptionTail ==
            <<"."," ","A"," ","p","r","e","c","i","o","u","s"," ","m","o","m","e","n","t"," ","c","a",
            "p","t","u","r","i","n","g"," ","t","h","e"," ","w","a","r","m","t","h"," ","a","n","d",
            " ","c","o","n","n","e","c","t","i","o","n"," ","o","f"," ","f","a","m","i","l","y"," ",
            "m","e","m","o","r","i","e","s",".">>
        TwoCaptionsHead ==
            <<"T","h","e","s","e"," ","i","m","a","g","e","s"," ","c","a","p","t","u","r","e"," ">>
        TwoCaptionsAnd ==
            <<" ","a","n","d"," ">>
        TwoCaptionsTail ==
            <<"."," ","T","o","g","e","t","h","e","r"," ","t","h","e","y"," ","t","e","l","l"," ","a",
            " ","s","t","o","r","y"," ","o","f"," ","f","a","m","i","l","y"," ","b","o","n","d","s",
            " ","a","n","d"," ","c","h","e","r","i","s","h","e","d"," ","m","o","m","e","n","t","s",
            ".">>
        ManyCaptionsHead ==
            <<"T","h","e","s","e"," ","p","h","o","t","o","s"," ","s","h","o","w"," ">>
        ManyCaptionsTail ==
            <<","," ","a","n","d"," ","m","o","r","e"," ","b","e","a","u","t","i","f","u","l"," ","m",
            "o","m","e","n","t","s","."," ","E","a","c","h"," ","i","m","a","g","e"," ","c","a","p",
            "t","u","r","e","s"," ","t","h","e"," ","l","o","v","e",","," ","j","o","y",","," ","a",
            "n","d"," ","c","o","n","n","e","c","t","i","o","n"," ","t","h","a","t"," ","d","e","f",
            "i","n","e"," ","t","h","e","s","e"," ","p","r","e","c","i","o","u","s"," ","f","a","m",
            "i","l","y"," ","m","e","m","o","r","i","e","s",".">>
        CommaSpace ==
            <<",", " ">>
    IN
    IF Len(captions) = 1 THEN OneCaptionHead \o captions[1] \o OneCaptionTail
    ELSE IF Len(captions) = 2
         THEN TwoCaptionsHead \o captions[1] \o TwoCaptionsAnd \o captions[2] \o TwoCaptionsTail
         ELSE ManyCaptionsHead \o Join(CommaSpace, captions) \o ManyCaptionsTail

_fallback_summary(captions) ==
    LET OneCaptionHead ==
            <<"T","h","i","s"," ","i","m","a","g","e"," ","s","h","o","w","s"," ">>
        OneCaptionTail ==
            <<"."," ","A"," ","p","r","e","c","i","o","u","s"," ","m","o","m","e","n","t"," ","c","a",
            "p","t","u","r","i","n","g"," ","t","h","e"," ","w","a","r","m","t","h"," ","a","n","d",
            " ","c","o","n","n","e","c","t","i","o","n"," ","o","f"," ","f","a","m","i","l","y"," ",
            "m","e","m","o","r","i","e","s",".">>
        TwoCaptionsHead ==
            <<"T","h","e","s","e"," ","i","m","a","g","e","s"," ","c","a","p","t","u","r","e"," ">>
        TwoCaptionsAnd ==
            <<" ","a","n","d"," ">>
        TwoCaptionsTail ==
            <<"."," ","T","o","g","e","t","h","e","r"," ","t","h","e","y"," ","t","e","l","l"," ","a",
            " ","s","t","o","r","y"," ","o","f"," ","f","a","m","i","l","y"," ","b","o","n","d","s",
            " ","a","n","d"," ","c","h","e","r","i","s","h","e","d"," ","m","o","m","e","n","t","s",
            ".">>
        ManyCaptionsHead ==
            <<"T","h","e","s","e"," ","p","h","o","t","o","s"," ","s","h","o","w"," ">>
        ManyCaptionsTail ==
            <<","," ","a","n","d"," ","m","o","r","e"," ","b","e","a","u","t","i","f","u","l"," ","m",
            "o","m","e","n","t","s","."," ","E","a","c","h"," ","i","m","a","g","e"," ","c","a","p",
            "t","u","r","e","s"," ","t","h","e"," ","l","o","v","e",","," ","j","o","y",","," ","a",
            "n","d"," ","c","o","n","n","e","c","t","i","o","n"," ","t","h","a","t"," ","d","e","f",
            "i","n","e"," ","t","h","e","s","e"," ","p","r","e","c","i","o","u","s"," ","f","a","m",
            "i","l","y"," ","m","e","m","o","r","i","e","s",".">>
        CommaSpace ==
            <<",", " ">>
    IN
    IF Len(captions) = 1 THEN OneCaptionHead \o captions[1] \o OneCaptionTail
    ELSE IF Len(captions) = 2
         THEN TwoCaptionsHead \o captions[1] \o TwoCaptionsAnd \o captions[2] \o TwoCaptionsTail
         ELSE ManyCaptionsHead \o Join(CommaSpace, Take(captions, 2)) \o ManyCaptionsTail

Bullet == <<"-", " ">>
Newline == <<"\n">>
CaptionLine(c) == Bullet \o c

SummaryUserPrompt(captions) ==
    LET SummaryPromptHead ==
            <<"\n","H","e","r","e"," ","a","r","e"," ","t","h","e"," ","c","a","p","t","i","o","n","s",
            " ","f","o","r"," ","s","o","m","e"," ","f","a","m","i","l","y"," ","p","h","o","t","o",
            "s",":","\n","\n">>
        SummaryPromptTail ==
            <<"\n","\n","W","r","i","t","e"," ","a"," ","2","U+00E2","U+20AC","U+201C","3"," ","s","e",
            "n","t","e","n","c","e"," ","n","a","r","r","a","t","i","v","e"," ","s","u","m","m","a",
            "r","y"," ","t","h","a","t"," ","c","a","p","t","u","r","e","s"," ","t","h","e"," ","k",
            "e","y"," ","m","o","m","e","n","t","s",","," ","\n","p","e","o","p","l","e",","," ","a",
            "n","d"," ","f","e","e","l","i","n","g","s","."," ","M","a","k","e"," ","i","t"," ","p",
            "e","r","s","o","n","a","l"," ","a","n","d"," ","e","v","o","c","a","t","i","v","e",".",
            "\n">>
    IN
    SummaryPromptHead \o Join(Newline, [i \in 1..Len(captions) |-> CaptionLine(captions[i])]) \o SummaryPromptTail

\* summarize_captions: the LLM's text if the call returns and the text passes
\* the gate; the fallback summary if the call raises or the gate rejects.
summarize_captions(captions, reply) ==
    LET answer == _call_llmstudio(SummaryUserPrompt(captions), reply)
    IN  IF answer.raised THEN _fallback_summary(captions)
        ELSE IF ~_looks_like_valid_summary(answer.value) THEN _fallback_summary(captions)
        ELSE answer.value

\* -------------------------------------------------------- lyrics_worker.py
LowerSeq == <<"a","b","c","d","e","f","g","h","i","j","k","l","m","n","o","p","q","r","s","t",
              "u","v","w","x","y","z">>
UpperSeq == <<"A","B","C","D","E","F","G","H","I","J","K","L","M","N","O","P","Q","R","S","T",
              "U","V","W","X","Y","Z">>
DigitSeq == <<"0","1","2","3","4","5","6","7","8","9">>

\* str.lower() and str.upper() of one character (the letters outside ASCII
\* of this model are lower case, and no call of upper() reaches them).
LowerChar(c) == IF c \in Upper THEN LowerSeq[CHOOSE i \in 1..26 : UpperSeq[i] = c] ELSE c
UpperChar(c) == IF c \in Lower THEN UpperSeq[CHOOSE i \in 1..26 : LowerSeq[i] = c] ELSE c

\* text.lower()
LowerText(text) == [i \in 1..Len(text) |-> LowerChar(text[i])]

\* text.capitalize(): the first character upper case, the rest lower case.
Capitalize(text) ==
    [i \in 1..Len(text) |-> IF i = 1 THEN UpperChar(text[i]) ELSE LowerChar(text[i])]

\* str(n) of a natural number
RECURSIVE IntText(_)
IntText(n) == IF n < 10 THEN <<DigitSeq[n + 1]>>
              ELSE IntText(n \div 10) \o <<DigitSeq[(n % 10) + 1]>>

\* The last position of the run of characters of the set chars that starts
\* at i.
RunEnd(text, i, chars) ==
    CHOOSE j \in i..Len(text) :
        /\ \A k \in i..j : text[k] \in chars
        /\ (j = Len(text) \/ text[j + 1] \notin chars)

\* text.rstrip(".")
RStripDots(text) ==
    LET keep == {i \in 1..Len(text) : text[i] # "."}
    IN  IF keep = {} THEN <<>>
        ELSE SubSeq(text, 1, CHOOSE i \in keep : \A k \in keep : i >= k)

_STOPWORDS ==
    {<<"t","h","e">>,<<"a","n","d">>,<<"w","i","t","h">>,<<"f","r","o","m">>,
     <<"t","h","a","t">>,<<"t","h","i","s">>,<<"t","h","o","s","e">>,<<"t","h","e","s","e">>,
     <<"i","n","t","o">>,<<"a","b","o","u","t">>,<<"t","h","e","i","r">>,
     <<"t","h","e","r","e">>,<<"t","h","e","y">>,<<"t","h","e","m">>,<<"w","e">>,
     <<"o","u","r">>,<<"o","u","r","s">>,<<"y","o","u","r">>,<<"y","o","u","r","s">>,
     <<"o","v","e","r">>,<<"u","n","d","e","r">>,<<"a","r","o","u","n","d">>,
     <<"w","e","r","e">>,<<"b","e","e","n">>,<<"h","a","v","e">>,<<"h","a","s">>,
     <<"h","a","d">>,<<"y","o","u">>,<<"f","o","r">>,<<"j","u","s","t">>,<<"l","i","k","e">>,
     <<"t","h","r","o","u","g","h">>}

VerseMarker ==
    <<"[","V","e","r","s","e">>
ChorusMarker ==
    <<"[","C","h","o","r","u","s","]">>
MinLyricsWords == 20

\* The gate with "and" in place of the "or" of line 49: a text is refused only
\* when both markers are missing.
_looks_like_valid_lyrics_EitherMarker(text) ==
    /\ text # <<>>
    /\ ~(~Contains(text, VerseMarker) /\ ~Contains(text, ChorusMarker))
    /\ ~HasNonAscii(text)
    /\ ~(WordCount(text) < MinLyricsWords)

_looks_like_valid_lyrics(text) ==
    /\ text # <<>>
    /\ ~(~Contains(text, VerseMarker) \/ ~Contains(text, ChorusMarker))
    /\ ~HasNonAscii(text)
    /\ ~(WordCount(text) < MinLyricsWords)

\* re.findall(r"[A-Za-z][A-Za-z'-]*", text): the matches from position i on.
IsTokenStart(c) == c \in Lower \cup Upper
TokenChars == Lower \cup Upper \cup {"'", "-"}
RECURSIVE Tokens(_, _)
Tokens(text, i) ==
    IF i > Len(text) THEN <<>>
    ELSE IF IsTokenStart(text[i])
         THEN LET j == RunEnd(text, i, TokenChars)
              IN  <<SubSeq(text, i, j)>> \o Tokens(text, j + 1)
         ELSE Tokens(text, i + 1)

InSeq(x, seq) == \E i \in 1..Len(seq) : seq[i] = x
MinKeywordLen == 3
KeywordLimit == 12

\* The loop of _extract_keywords over tokens[i..], keywords being the list
\* built so far.
RECURSIVE KeywordLoop(_, _, _, _)
KeywordLoop(tokens, i, keywords, limit) ==
    IF i > Len(tokens) THEN keywords
    ELSE IF Len(tokens[i]) < MinKeywordLen \/ LowerText(tokens[i]) \in _STOPWORDS
         THEN KeywordLoop(tokens, i + 1, keywords, limit)
         ELSE LET next == IF ~InSeq(tokens[i], keywords)
                          THEN Append(keywords, tokens[i]) ELSE keywords
              IN  IF Len(next) >= limit THEN next
                  ELSE KeywordLoop(tokens, i + 1, next, limit)

_extract_keywords(summary, limit) == KeywordLoop(Tokens(summary, 1), 1, <<>>, limit)

GenericKeywords ==
    <<<<"m","e","m","o","r","i","e","s">>,
      <<"f","a","m","i","l","y">>,
      <<"l","a","u","g","h","t","e","r">>,
      <<"h","o","m","e">>>>

\* The while loop of _make_fallback_lines: lines padded to target_count, the
\* keyword index idx advancing by one per padded line.
RECURSIVE PadLines(_, _, _, _, _)
PadLines(lines, idx, target_count, keywords, mood) ==
    LET PadLineMid ==
            <<" ","i","n"," ">>
        PadLineTail ==
            <<" ","l","i","g","h","t"," ","w","e"," ","k","e","e","p",".">>
    IN
    IF ~(Len(lines) < target_count) THEN lines
    ELSE PadLines(Append(lines,
                         Capitalize(keywords[(idx % Len(keywords)) + 1])
                            \o PadLineMid \o LowerText(mood) \o PadLineTail),
                  idx + 1, target_count, keywords, mood)

_make_fallback_lines(base_lines, target_count, keywords, mood) ==
    LET kw == IF keywords = <<>> THEN GenericKeywords ELSE keywords
        \* the for loop: base lines are taken until target_count is reached
        taken == Take(base_lines, Max(target_count, 0))
    IN  Take(PadLines(taken, 0, target_count, kw, mood), Max(target_count, 0))

\* re.split(r"(?<=[.!?])\s+", text): the pieces from position i on.  A match is
\* a run of white space that starts right after ".", "!" or "?".
IsTerminal(c) == c \in {".", "!", "?"}
RECURSIVE SplitSentences(_, _)
SplitSentences(text, i) ==
    LET starts == {p \in Max(i, 2)..Len(text) : IsSpace(text[p]) /\ IsTerminal(text[p - 1])}
    IN  IF starts = {} THEN <<SubSeq(text, i, Len(text))>>
        ELSE LET p == CHOOSE q \in starts : \A r \in starts : q <= r
             IN  <<SubSeq(text, i, p - 1)>>
                    \o SplitSentences(text, RunEnd(text, p, Spaces) + 1)

\* [x for x in seq if x]
RECURSIVE NonEmpty(_)
NonEmpty(seq) ==
    IF seq = <<>> THEN <<>>
    ELSE IF Head(seq) = <<>> THEN NonEmpty(Tail(seq))
    ELSE <<Head(seq)>> \o NonEmpty(Tail(seq))

MinChorusLines == 4
MaxChorusLines == 6

\* The verse with index idx (from 0) of _fallback_lyrics.
FallbackVerse(idx, sentences, keywords, genre, mood, lines_per_verse) ==
    LET EchoesInA ==
            <<" ","e","c","h","o","e","s"," ","i","n"," ","a"," ">>
        SwayDot ==
            <<" ","s","w","a","y",".">>
        AndJoin ==
            <<" ","a","n","d"," ">>
        FamilyMemories ==
            <<"F","a","m","i","l","y"," ","m","e","m","o","r","i","e","s">>
        DanceInTheFrame ==
            <<" ","d","a","n","c","e"," ","i","n"," ","t","h","e"," ","f","r","a","m","e",".">>
        HoldingLine ==
            <<"H","o","l","d","i","n","g"," ","t","o"," ","t","h","e"," ","q","u","i","e","t"," ","l",
            "i","g","h","t"," ","o","f"," ","h","o","m","e",".">>
        VerseOpen ==
            <<"[","V","e","r","s","e"," ">>
        VerseClose ==
            <<"]", "\n">>
    IN
    LET sentence == sentences[(idx % Len(sentences)) + 1]
        pair == Join(AndJoin, Take(keywords, 2))
        base_lines == << RStripDots(sentence),
                         Capitalize(mood) \o EchoesInA \o LowerText(genre) \o SwayDot,
                         (IF pair # <<>> THEN pair ELSE FamilyMemories) \o DanceInTheFrame,
                         HoldingLine >>
        verse_lines == _make_fallback_lines(base_lines, lines_per_verse, keywords, mood)
    IN  VerseOpen \o IntText(idx + 1) \o VerseClose \o Join(Newline, verse_lines)

\* lyrics_sections: each verse in turn, the chorus after the first verse, and
\* the chorus once more at the end.
RECURSIVE Sections(_, _, _)
Sections(verses, idx, chorus) ==
    IF idx >= Len(verses) THEN <<chorus>>
    ELSE <<verses[idx + 1]>> \o (IF idx = 0 THEN <<chorus>> ELSE <<>>)
            \o Sections(verses, idx + 1, chorus)

_fallback_lyrics(summary, genre, mood, lines_per_verse, num_verses) ==
    LET DefaultSentence ==
            <<"W","e"," ","g","a","t","h","e","r"," ","t","o","g","e","t","h","e","r",","," ","s","h",
            "a","r","i","n","g"," ","t","h","e"," ","s","t","o","r","i","e","s"," ","t","h","a","t",
            " ","m","a","k","e"," ","t","h","i","s"," ","f","a","m","i","l","y"," ","o","u","r","s",
            ".">>
        HoldOnToThis ==
            <<"H","o","l","d"," ","o","n"," ","t","o"," ","t","h","i","s"," ">>
        GlowTonight ==
            <<" ","g","l","o","w"," ","t","o","n","i","g","h","t",".">>
        FamilyHeartsInA ==
            <<"F","a","m","i","l","y"," ","h","e","a","r","t","s"," ","b","e","a","t","i","n","g"," ",
            "i","n"," ","a"," ">>
        SongDot ==
            <<" ","s","o","n","g",".">>
        EveryLaughLine ==
            <<"E","v","e","r","y"," ","l","a","u","g","h"," ","a","n","d"," ","t","e","a","r"," ","w",
            "e"," ","t","r","e","a","s","u","r","e"," ","t","i","g","h","t",".">>
        LoveKeepsLine ==
            <<"L","o","v","e"," ","k","e","e","p","s"," ","t","h","e"," ","r","h","y","t","h","m",",",
            " ","s","t","e","a","d","y"," ","a","n","d"," ","s","t","r","o","n","g",".">>
        ChorusHeader ==
            <<"[","C","h","o","r","u","s","]","\n">>
        BlankLine ==
            <<"\n", "\n">>
    IN
    LET pieces == SplitSentences(Strip(summary), 1)
        split == NonEmpty([i \in 1..Len(pieces) |-> Strip(pieces[i])])
        sentences == IF split = <<>> THEN <<DefaultSentence>> ELSE split
        keywords == _extract_keywords(summary, KeywordLimit)
        verses == [n \in 1..num_verses |->
                      FallbackVerse(n - 1, sentences, keywords, genre, mood, lines_per_verse)]
        chorus_base == << HoldOnToThis \o LowerText(mood) \o GlowTonight,
                          FamilyHeartsInA \o LowerText(genre) \o SongDot,
                          EveryLaughLine,
                          LoveKeepsLine >>
        chorus_lines == _make_fallback_lines(
                            chorus_base,
                            Max(MinChorusLines, Min(MaxChorusLines, lines_per_verse)),
                            keywords, mood)
        chorus == ChorusHeader \o Join(Newline, chorus_lines)
    IN  Join(BlankLine, Sections(verses, 0, chorus))

LyricsUserPrompt(summary, genre, mood, lines_per_verse, num_verses) ==
    LET LyricsPromptSummary ==
            <<"\n","I"," ","h","a","v","e"," ","t","h","i","s"," ","s","t","o","r","y"," ","s","u","m",
            "m","a","r","y"," ","o","f"," ","s","o","m","e"," ","f","a","m","i","l","y"," ","p","h",
            "o","t","o","s",":","\n","\n">>
        LyricsPromptGenre ==
            <<"\n","\n","W","r","i","t","e"," ","s","o","n","g"," ","l","y","r","i","c","s"," ","b","a",
            "s","e","d"," ","o","n"," ","t","h","i","s"," ","s","t","o","r","y",".","\n","\n","C","o",
            "n","s","t","r","a","i","n","t","s",":","\n","-"," ","G","e","n","r","e"," ","f","e","e",
            "l",":"," ">>
        LyricsPromptMood ==
            <<"\n","-"," ","M","o","o","d",":"," ">>
        LyricsPromptStructure ==
            <<"\n","-"," ","S","t","r","u","c","t","u","r","e",":"," ">>
        LyricsPromptAround ==
            <<" ","v","e","r","s","e","s"," ","+"," ","1"," ","c","h","o","r","u","s"," ","t","h","a",
            "t"," ","r","e","p","e","a","t","s","\n","-"," ","A","r","o","u","n","d"," ">>
        LyricsPromptTail ==
            <<" ","l","i","n","e","s"," ","p","e","r"," ","v","e","r","s","e",","," ","4","U+00E2",
            "U+20AC","U+201C","6"," ","l","i","n","e","s"," ","f","o","r"," ","t","h","e"," ","c","h",
            "o","r","u","s","\n","-"," ","M","a","k","e"," ","i","t"," ","n","o","s","t","a","l","g",
            "i","c",","," ","s","p","e","c","i","f","i","c",","," ","a","n","d"," ","v","i","s","u",
            "a","l",","," ","r","e","f","e","r","e","n","c","i","n","g"," ","s","c","e","n","e","s",
            " ","f","r","o","m"," ","t","h","e"," ","s","t","o","r","y","\n","-"," ","A","v","o","i",
            "d"," ","p","r","o","f","a","n","i","t","y",","," ","k","e","e","p"," ","i","t"," ","f",
            "a","m","i","l","y","-","f","r","i","e","n","d","l","y","\n","\n","F","o","r","m","a","t",
            " ","E","X","A","C","T","L","Y"," ","l","i","k","e"," ","t","h","i","s",":","\n","\n","[",
            "V","e","r","s","e"," ","1","]","\n",".",".",".","\n","\n","[","C","h","o","r","u","s",
            "]","\n",".",".",".","\n","\n","[","V","e","r","s","e"," ","2","]","\n",".",".",".","\n",
            "\n","D","o","n","'","t"," ","a","d","d"," ","e","x","p","l","a","n","a","t","i","o","n",
            "s"," ","b","e","f","o","r","e"," ","o","r"," ","a","f","t","e","r"," ","t","h","e"," ",
            "l","y","r","i","c","s",".","\n">>
    IN
    LyricsPromptSummary \o summary \o LyricsPromptGenre \o genre \o LyricsPromptMood \o mood
        \o LyricsPromptStructure \o IntText(num_verses) \o LyricsPromptAround
        \o IntText(lines_per_verse) \o LyricsPromptTail

\* generate_lyrics: the LLM's text if the call returns and the text passes the
\* gate; the fallback lyrics if the call raises or the gate rejects.
generate_lyrics(summary, genre, mood, lines_per_verse, num_verses, reply) ==
    LET answer == _call_llmstudio(
                      LyricsUserPrompt(summary, genre, mood, lines_per_verse, num_verses),
                      reply)
    IN  IF answer.raised
        THEN _fallback_lyrics(summary, genre, mood, lines_per_verse, num_verses)
        ELSE IF ~_looks_like_valid_lyrics(answer.value)
        THEN _fallback_lyrics(summary, genre, mood, lines_per_verse, num_verses)
        ELSE answer.value

DefaultLinesPerVerse == 4
DefaultNumVerses == 2

\* ------------------------------------------------------------ Python dicts
\* d.get(k, default)
Get(d, k, default) == IF k \in DOMAIN d THEN d[k] ELSE default

\* d[k] = v, and {**d, k: v}
Put(d, k, v) == [x \in DOMAIN d \cup {k} |-> IF x = k THEN v ELSE d[x]]

\* None, and a value that is not None
None == [none |-> TRUE]
Some(v) == [value |-> v]

\* ------------------------------------------------------------------ inputs
\* uuid.uuid4() gives every upload an identifier no other job has: the n-th
\* job created is "job-n".
JobIdHead == <<"j","o","b","-">>
JobId(n) == JobIdHead \o IntText(n)
JobIds == {JobId(n) : n \in 1..MaxJobs}

\* The bodies of POST /upload_photo: lists of image URLs.
DogUrl == <<"h","t","t","p","s",":","/","/","i","m","g","/","d","o","g",".","j","p","g">>
BeachUrl == <<"h","t","t","p","s",":","/","/","i","m","g","/","b","e","a","c","h",".","j","p","g">>
UploadBodies == {<<BeachUrl, DogUrl>>}

\* The multipart bodies of POST /upload_photo_files: each file's content type
\* and the extension of its file name.
JpegFile == [content_type |-> <<"i","m","a","g","e","/","j","p","e","g">>, ext |-> <<".","j","p","g">>]
TextFile == [content_type |-> <<"t","e","x","t","/","p","l","a","i","n">>, ext |-> <<".","t","x","t">>]
UploadFiles == {<<TextFile, JpegFile>>, <<TextFile>>}

\* The genre and mood of a POST /submit_job body.
Pop == <<"p","o","p">>
Rock == <<"R","o","c","k">>
Nostalgic == <<"n","o","s","t","a","l","g","i","c">>
Happy == <<"h","a","p","p","y">>
Genres == {Pop, Rock}
Moods == {Happy}

\* What the captioning model says of each picture (BLIP decodes with beam
\* search, so a picture has one caption).
DogCaption ==
    <<"a"," ","d","o","g">>
BeachCaption ==
    <<"a"," ","f","a","m","i","l","y"," ","s","m","i","l","i","n","g"," ","t","o","g","e","t",
      "h","e","r"," ","o","n"," ","a"," ","s","u","n","n","y"," ","b","e","a","c","h"," ","d",
      "a","y">>
PhotoCaption ==
    <<"a"," ","b","i","r","t","h","d","a","y"," ","c","a","k","e">>
Caption(source) ==
    IF source = DogUrl THEN DogCaption
    ELSE IF source = BeachUrl THEN BeachCaption
    ELSE PhotoCaption
Captions(image_sources) == [i \in 1..Len(image_sources) |-> Caption(image_sources[i])]

\* The texts the LLM answers with when it answers.
GoodSummary ==
    <<"A"," ","f","a","m","i","l","y"," ","g","a","t","h","e","r","s"," ","a","t"," ","t","h",
      "e"," ","b","e","a","c","h"," ","a","n","d"," ","s","h","a","r","e","s"," ","a"," ","w",
      "a","r","m"," ","s","u","n","n","y"," ","d","a","y",".">>
ShortSummary ==
    <<"T","o","o"," ","s","h","o","r","t"," ","t","o"," ","p","a","s","s">>
GoodLyrics ==
    <<"[","V","e","r","s","e"," ","1","]","\n","W","e"," ","w","a","l","k","e","d"," ","a","l",
      "o","n","g"," ","t","h","e"," ","s","h","o","r","e"," ","t","h","a","t"," ","d","a","y",
      "\n","T","h","e"," ","s","u","n"," ","w","a","s"," ","w","a","r","m"," ","a","n","d"," ",
      "b","r","i","g","h","t","\n","\n","[","C","h","o","r","u","s","]","\n","H","o","l","d",
      " ","t","h","e"," ","m","e","m","o","r","y"," ","c","l","o","s","e"," ","a","n","d"," ",
      "n","e","v","e","r"," ","l","e","t"," ","i","t"," ","f","a","d","e"," ","a","w","a","y",
      "\n">>
BadLyrics ==
    <<"H","e","r","e"," ","a","r","e"," ","s","o","m","e"," ","l","y","r","i","c","s"," ","a",
      "b","o","u","t"," ","t","h","e"," ","b","e","a","c","h">>
SummaryReplies == {RequestError, OtherError, Reply(GoodSummary), Reply(ShortSummary)}
LyricsReplies == {RequestError, OtherError, Reply(GoodLyrics), Reply(BadLyrics)}

\* ------------------------------------------------- image_analysis_worker.py
ImageNotFound ==
    <<"I","m","a","g","e"," ","f","i","l","e"," ","n","o","t"," ","f","o","u","n","d",":"," ">>
ClientError ==
    <<"4","0","4"," ","C","l","i","e","n","t"," ","E","r","r","o","r",":"," ","N","o","t"," ","F","o","u","n","d"," ","f","o","r"," ","u","r","l",":"," ">>
HttpScheme == <<"h","t","t","p",":","/","/">>
HttpsScheme == <<"h","t","t","p","s",":","/","/">>
Raise(message) == [raised |-> TRUE, message |-> message]

\* text.startswith(prefix)
StartsWith(text, prefix) == Take(text, Len(prefix)) = prefix

\* _load_image of a source that cannot be loaded: a URL the server does not
\* serve (resp.raise_for_status()) or a path that does not exist.
LoadError(source) ==
    IF StartsWith(source, HttpScheme) \/ StartsWith(source, HttpsScheme)
    THEN ClientError \o source
    ELSE ImageNotFound \o source

\* generate_photo_captions skipping the sources that cannot be loaded
\* instead of raising.
generate_photo_captions_Skipping(image_sources, unreadable) ==
    IF unreadable \in 1..Len(image_sources)
    THEN Returned(Captions([i \in 1..(Len(image_sources) - 1) |->
                               IF i < unreadable THEN image_sources[i]
                               ELSE image_sources[i + 1]]))
    ELSE Returned(Captions(image_sources))

\* generate_photo_captions: one caption per source, in order; _load_image
\* raises on the first source that cannot be loaded (unreadable == 0: every
\* source loads; unreadable == i: source i is the first that does not).
generate_photo_captions(image_sources, unreadable) ==
    IF unreadable \in 1..Len(image_sources)
    THEN Raise(LoadError(image_sources[unreadable]))
    ELSE Returned(Captions(image_sources))

\* ---------------------------------------------------------- vocal_worker.py
Slash == <<"/">>
VocalsSuffix ==
    <<"_","v","o","c","a","l","s",".","w","a","v">>
SynthesisFailed ==
    <<"B","a","r","k"," ","g","e","n","e","r","a","t","i","o","n"," ","r","e","t","u","r","n",
      "e","d"," ","a","n"," ","e","m","p","t","y"," ","a","u","d","i","o"," ","l","i","s","t",
      ".">>

\* os.path.join(a, b)
PathJoin(a, b) ==
    IF b # <<>> /\ b[1] = "/" THEN b
    ELSE IF a = <<>> \/ a[Len(a)] = "/" THEN a \o b
    ELSE a \o Slash \o b

\* os.path.basename(path): what follows the last "/".
Basename(path) ==
    LET cuts == {i \in 1..Len(path) : path[i] = "/"}
    IN  IF cuts = {} THEN path
        ELSE SubSeq(path, (CHOOSE i \in cuts : \A k \in cuts : i >= k) + 1, Len(path))

\* generate_vocals: the path of the WAV file it writes, unless the model
\* load, the synthesis or the write raises.
generate_vocals(job_id, lyrics, out_dir, synthesized) ==
    IF synthesized THEN Returned(PathJoin(out_dir, job_id \o VocalsSuffix))
    ELSE Raise(SynthesisFailed)

\* The waveform of generate_vocals.  An amplitude is an integer number of
\* ten-thousandths: 0.001 is 10, 0.1 is 1000, 0.95 is 9500.  A tensor or array
\* is its number of dimensions and its nested data; an array of shape [T, C]
\* is a sequence of T frames of C samples each.
SilenceThreshold == 10
Headroom == 9500

Tensor(ndim, data) == [type |-> "tensor", ndim |-> ndim, data |-> data]
Array(ndim, data) == [ndim |-> ndim, data |-> data]

\* np.expand_dims(x, axis=1) of a one-dimensional x
ExpandDims(data) == [i \in 1..Len(data) |-> <<data[i]>>]

\* _postprocess_bark_audio: the first element of a tuple, the first element
\* of a list, a leading dimension of size 1 squeezed, and a one-dimensional
\* result turned into one channel.
_postprocess_bark_audio(audio) ==
    LET UnexpectedType ==
            <<"U","n","e","x","p","e","c","t","e","d"," ","B","a","r","k"," ","o","u","t","p",
              "u","t"," ","t","y","p","e",":"," ">>
        unwrapped == IF audio.type = "tuple" THEN audio.items[1] ELSE audio
        audio_tensor == IF unwrapped.type = "list" THEN unwrapped.items[1] ELSE unwrapped
        squeezed == IF audio_tensor.ndim = 2 /\ Len(audio_tensor.data) = 1
                    THEN Array(1, audio_tensor.data[1])
                    ELSE Array(audio_tensor.ndim, audio_tensor.data)
    IN  IF unwrapped.type = "list" /\ unwrapped.items = <<>> THEN Raise(SynthesisFailed)
        ELSE IF unwrapped.type \notin {"list", "tensor"}
        THEN Raise(UnexpectedType \o <<unwrapped.type>>)
        ELSE IF squeezed.ndim = 1 THEN Returned(Array(2, ExpandDims(squeezed.data)))
        ELSE Returned(squeezed)

\* The samples of a two-dimensional array, and np.abs(array).max() when
\* there is one.
SampleValues(array) ==
    UNION {{array.data[i][c] : c \in 1..Len(array.data[i])} : i \in 1..Len(array.data)}
PeakAmplitude(array) ==
    LET magnitudes == {IF v < 0 THEN 0 - v ELSE v : v \in SampleValues(array)}
    IN  CHOOSE peak \in magnitudes : \A m \in magnitudes : m <= peak

\* 0.1 * np.sin(2 * np.pi * 440 * t) for t = np.linspace(0, 2.0, int(sr * 2.0))
\* at a sampling rate sr of 2: t = 0, 2/3, 4/3, 2 and the tone is 0, 0.0866,
\* -0.0866, 0.
FallbackTone == <<0, 866, 0 - 866, 0>>

\* The normalisation without headroom: audio / max_val
Normalize_FullScale(array, max_val) ==
    Array(array.ndim,
          [i \in 1..Len(array.data) |->
              [c \in 1..Len(array.data[i]) |->
                  IF array.data[i][c] < 0
                  THEN 0 - (((0 - array.data[i][c]) * 10000) \div max_val)
                  ELSE (array.data[i][c] * 10000) \div max_val]])

\* audio / max_val * 0.95, sample by sample (rounded toward zero to the
\* unit of the model; a sample at the peak gives 0.95 exactly).
Normalize(array, max_val) ==
    Array(array.ndim,
          [i \in 1..Len(array.data) |->
              [c \in 1..Len(array.data[i]) |->
                  IF array.data[i][c] < 0
                  THEN 0 - (((0 - array.data[i][c]) * Headroom) \div max_val)
                  ELSE (array.data[i][c] * Headroom) \div max_val]])

\* generate_vocals with a waveform at the threshold replaced as well
VocalWaveform_AtMost(audio) ==
    LET ZeroSize ==
            <<"z","e","r","o","-","s","i","z","e"," ","a","r","r","a","y"," ","t","o"," ","r",
              "e","d","u","c","t","i","o","n"," ","o","p","e","r","a","t","i","o","n"," ","m",
              "a","x","i","m","u","m"," ","w","h","i","c","h"," ","h","a","s"," ","n","o"," ",
              "i","d","e","n","t","i","t","y">>
        postprocessed == _postprocess_bark_audio(audio)
        audio_np == postprocessed.value
        replaced == IF PeakAmplitude(audio_np) <= SilenceThreshold
                    THEN Array(2, ExpandDims(FallbackTone))
                    ELSE audio_np
        max_val == PeakAmplitude(replaced)
    IN  IF postprocessed.raised THEN postprocessed
        ELSE IF SampleValues(audio_np) = {} THEN Raise(ZeroSize)
        ELSE IF max_val > 0 THEN Returned(Normalize(replaced, max_val))
        ELSE Returned(replaced)

\* generate_vocals, lines 176-198: the array handed to sf.write for the
\* output audio of the model, unless a step raises (np.abs(x).max() raises a
\* ValueError on an array without samples).
VocalWaveform(audio) ==
    LET ZeroSize ==
            <<"z","e","r","o","-","s","i","z","e"," ","a","r","r","a","y"," ","t","o"," ","r",
              "e","d","u","c","t","i","o","n"," ","o","p","e","r","a","t","i","o","n"," ","m",
              "a","x","i","m","u","m"," ","w","h","i","c","h"," ","h","a","s"," ","n","o"," ",
              "i","d","e","n","t","i","t","y">>
        postprocessed == _postprocess_bark_audio(audio)
        audio_np == postprocessed.value
        replaced == IF PeakAmplitude(audio_np) < SilenceThreshold
                    THEN Array(2, ExpandDims(FallbackTone))
                    ELSE audio_np
        max_val == PeakAmplitude(replaced)
    IN  IF postprocessed.raised THEN postprocessed
        ELSE IF SampleValues(audio_np) = {} THEN Raise(ZeroSize)
        ELSE IF max_val > 0 THEN Returned(Normalize(replaced, max_val))
        ELSE Returned(replaced)

\* ---------------------------------------------------------- music_worker.py

\* The steps of mix_audio_tracks that may raise, in the order of the code.
MixSteps ==
    {"import", "load_music", "load_vocals", "gain_music", "gain_vocals",
     "min_duration", "slice_music", "slice_vocals", "overlay", "normalize", "export"}

\* mix_audio_tracks without the two slices
mix_audio_tracks_KeepingMusic(args) ==
    LET music == [duration |-> args.music_duration, gain |-> 0 - 8]
        vocals == [duration |-> args.vocals_duration, gain |-> 0]
        final == [duration |-> music.duration, gain |-> 0]
    IN  IF args.fails \in MixSteps
        THEN [outcome |-> Returned(args.vocals_path), exported |-> None]
        ELSE [outcome |-> Returned(args.output_path),
              exported |-> Some([path |-> args.output_path, duration |-> final.duration])]

\* mix_audio_tracks with the export outside the try block
mix_audio_tracks_ExportUnguarded(args) ==
    LET music == [duration |-> args.music_duration, gain |-> 0 - 8]
        vocals == [duration |-> args.vocals_duration, gain |-> 0]
        min_duration == Min(music.duration, vocals.duration)
        sliced_music == [music EXCEPT !.duration = Min(music.duration, min_duration)]
        sliced_vocals == [vocals EXCEPT !.duration = Min(vocals.duration, min_duration)]
        final == [duration |-> sliced_music.duration, gain |-> 0]
    IN  IF args.fails \in MixSteps \ {"export"}
        THEN [outcome |-> Returned(args.vocals_path), exported |-> None]
        ELSE IF args.fails = "export"
        THEN [outcome |-> Raised, exported |-> None]
        ELSE [outcome |-> Returned(args.output_path),
              exported |-> Some([path |-> args.output_path, duration |-> final.duration])]

\* mix_audio_tracks: its outcome and the file exported, if any.  An
\* audio segment is its duration and its gain; `fails` is the step that
\* raises, or "none".  A slice [:d] is no longer than d, an overlay has the
\* duration of the segment overlaid upon, and a gain or a normalisation
\* leaves the duration alone.
mix_audio_tracks(args) ==
    LET music == [duration |-> args.music_duration, gain |-> 0 - 8]
        vocals == [duration |-> args.vocals_duration, gain |-> 0]
        min_duration == Min(music.duration, vocals.duration)
        sliced_music == [music EXCEPT !.duration = Min(music.duration, min_duration)]
        sliced_vocals == [vocals EXCEPT !.duration = Min(vocals.duration, min_duration)]
        final == [duration |-> sliced_music.duration, gain |-> 0]
    IN  IF args.fails \in MixSteps
        THEN [outcome |-> Returned(args.vocals_path), exported |-> None]
        ELSE [outcome |-> Returned(args.output_path),
              exported |-> Some([path |-> args.output_path, duration |-> final.duration])]

\* ------------------------------------------------------ packaging_worker.py
BaseUrl ==
    <<"h","t","t","p","s",":","/","/","s","a","h","a","a","r","k","a","j","y","o","t","i","2",
      "0","1","8","-","-","f","a","m","i","l","y","-","p","h","o","t","o","-","s","o","n","g",
      "-","b","a","c","k","e","n","d","-","d","o","w","n","l","o","a","d","-","a","u","d","i",
      "o",".","m","o","d","a","l",".","r","u","n">>
JobIdQuery ==
    <<"?","j","o","b","_","i","d","=">>

\* urllib.parse.quote_plus of one character: letters, digits and "_.-~" stay,
\* a space becomes "+", anything else becomes a three-character %XX escape
\* (its two hexadecimal digits are not modelled).
QuoteChar(c) ==
    IF c \in Lower \cup Upper \cup Digits \cup {"_", ".", "-", "~"} THEN <<c>>
    ELSE IF c = " " THEN <<"+">>
    ELSE <<"%", "X", "X">>
RECURSIVE quote_plus(_)
quote_plus(text) ==
    IF text = <<>> THEN <<>> ELSE QuoteChar(Head(text)) \o quote_plus(Tail(text))

\* package_result without the audio_filename of line 34.
package_result_NoFilename(job_id, captions, summary, lyrics, audio_path) ==
    [job_id |-> job_id,
     status |-> "complete",
     captions |-> captions,
     summary |-> summary,
     lyrics |-> lyrics,
     audio_url |-> BaseUrl \o JobIdQuery \o quote_plus(job_id),
     audio_path |-> BaseUrl \o JobIdQuery \o quote_plus(job_id),
     _audio_file_path |-> audio_path]
package_result(job_id, captions, summary, lyrics, audio_path) ==
    LET audio_filename == Basename(audio_path)
        public_url == BaseUrl \o JobIdQuery \o quote_plus(job_id)
    IN  [job_id |-> job_id,
         status |-> "complete",
         captions |-> captions,
         summary |-> summary,
         lyrics |-> lyrics,
         audio_url |-> public_url,
         audio_path |-> public_url,
         audio_filename |-> audio_filename,
         _audio_file_path |-> audio_path]

\* ------------------------------------------------------------------- state
VARIABLES
    JOB_STORE,      \* the modal.Dict "family-photo-song-jobs": job_id -> job dict
    AUDIO_VOLUME,   \* the committed files of the volume mounted at /audio
    requests,       \* the POST /submit_job calls: position and locals of each
    tasks,          \* the _run_pipeline task each call spawned: position and locals
    response,       \* the answer of GET /get_status, /fetch_result or /download_audio
                    \* when the last step was such a call
    worker          \* a worker function called on its own: its arguments and, once
                    \* it has returned, its result

vars == <<JOB_STORE, AUDIO_VOLUME, requests, tasks, response, worker>>

Calls == 1..MaxSubmits
EmptyDict == [k \in {} |-> {}]

IdleRequest == [pc |-> "idle", body |-> EmptyDict, job |-> EmptyDict, response |-> EmptyDict]
NoCall == [fn |-> "none"]
NoTask == [pc |-> "none", job_id |-> <<>>, job |-> EmptyDict, captions |-> <<>>,
           summary |-> <<>>, lyrics |-> <<>>, audio_path |-> <<>>, error |-> <<>>]

Init ==
    /\ JOB_STORE = EmptyDict
    /\ AUDIO_VOLUME = {}
    /\ requests = [r \in Calls |-> IdleRequest]
    /\ tasks = [t \in Calls |-> NoTask]
    /\ response = EmptyDict
    /\ worker = NoCall

\* JOB_STORE[job_id] = job: the dict is replaced as a whole.
StoreWrite(job_id, job) == JOB_STORE' = (job_id :> job) @@ JOB_STORE

\* HTTPException(status_code, detail) and a JSON answer.
HttpError(status_code, detail) == [status_code |-> status_code, detail |-> detail]
HttpOk(body) == [status_code |-> 200, body |-> body]

\* --------------------------------------------------------- upload_photo.py
\* uuid4 never repeats: the next job takes the next unused identifier.
FreshJobId == JobId(Cardinality(DOMAIN JOB_STORE) + 1)

\* POST /upload_photo (pydantic refuses an empty image_urls before the
\* handler runs).
upload_photo(image_urls) ==
    /\ Cardinality(DOMAIN JOB_STORE) < MaxJobs
    /\ image_urls # <<>>
    /\ StoreWrite(FreshJobId, [job_id |-> FreshJobId,
                               status |-> "created",
                               image_urls |-> image_urls,
                               image_paths |-> <<>>])
    /\ response' = EmptyDict
    /\ UNCHANGED <<AUDIO_VOLUME, requests, tasks, worker>>

\* The loop of upload_photo_files: files[i] is the file with idx i - 1; a
\* file whose content type does not start with "image/" is skipped.
SavedPath(job_id, idx, file) ==
    LET PhotosDir ==
            <<"/","p","h","o","t","o","s","/">>
        PhotoName ==
            <<"p","h","o","t","o","_">>
        JpgExt ==
            <<".","j","p","g">>
    IN
    PathJoin(PhotosDir \o job_id,
             PhotoName \o IntText(idx) \o (IF file.ext # <<>> THEN file.ext ELSE JpgExt))
RECURSIVE SavedPaths(_, _, _)
SavedPaths(job_id, files, i) ==
    LET ImageType ==
            <<"i","m","a","g","e","/">>
    IN
    IF i > Len(files) THEN <<>>
    ELSE (IF StartsWith(files[i].content_type, ImageType)
          THEN <<SavedPath(job_id, i - 1, files[i])>> ELSE <<>>)
            \o SavedPaths(job_id, files, i + 1)

\* POST /upload_photo_files: with no image file among the files the call
\* ends in HTTP 400 and stores nothing.
upload_photo_files(files) ==
    LET image_paths == SavedPaths(FreshJobId, files, 1)
    IN  /\ Cardinality(DOMAIN JOB_STORE) < MaxJobs
        /\ files # <<>>
        /\ Len(image_paths) # 0
        /\ StoreWrite(FreshJobId, [job_id |-> FreshJobId,
                                   status |-> "created",
                                   image_urls |-> <<>>,
                                   image_paths |-> image_paths])
        /\ response' = EmptyDict
    /\ UNCHANGED <<AUDIO_VOLUME, requests, tasks, worker>>

\* ----------------------------------------------------------- submit_job.py
\* The statuses submit_job accepts (line 133), and the same with queued let
\* through.
SubmittableWithQueued == {"created", "failed", "queued"}
SubmittableStatuses == {"created", "failed"}
NoImagesStored ==
    <<"N","o"," ","i","m","a","g","e"," ","s","o","u","r","c","e","s"," ","(","U","R","L","s",
      " ","o","r"," ","p","a","t","h","s",")"," ","s","t","o","r","e","d"," ","o","n"," ","j",
      "o","b">>
AudioDir == <<"/","a","u","d","i","o">>

SubmitBodies == [job_id : JobIds, genre : Genres, mood : Moods]

\* A call that has answered keeps only the job it was for and its answer.
Answered(job_id, answer) ==
    [pc |-> "done", body |-> [job_id |-> job_id], job |-> EmptyDict, response |-> answer]

\* The checks of submit_job without the one of lines 139-146 on the image
\* sources.
SubmitRead_NoImageCheck(r, body) ==
    /\ requests[r].pc = "idle"
    /\ IF r = 1 THEN TRUE ELSE requests[r - 1].pc # "idle"
    /\ IF body.job_id \notin DOMAIN JOB_STORE
       THEN requests' = [requests EXCEPT ![r] =
                Answered(body.job_id, HttpError(404, "Job not found"))]
       ELSE LET job == JOB_STORE[body.job_id]
            IN  IF Get(job, "status", "None") \notin SubmittableStatuses
                THEN requests' = [requests EXCEPT ![r] =
                        Answered(body.job_id, HttpError(400, "Job is already in status"))]
                ELSE requests' = [requests EXCEPT ![r] =
                        [pc |-> "write", body |-> body, job |-> job,
                         response |-> EmptyDict]]
    /\ response' = EmptyDict
    /\ UNCHANGED <<JOB_STORE, AUDIO_VOLUME, tasks, worker>>

\* submit_job, lines 128-146: the membership test, the read of the job and
\* the two checks on the copy.  (The store never deletes a key, so the test
\* and the read see the same key.)  Calls are numbered in the order in which
\* they reach the handler.
SubmitRead(r, body) ==
    /\ requests[r].pc = "idle"
    /\ IF r = 1 THEN TRUE ELSE requests[r - 1].pc # "idle"
    /\ IF body.job_id \notin DOMAIN JOB_STORE
       THEN requests' = [requests EXCEPT ![r] =
                Answered(body.job_id, HttpError(404, "Job not found"))]
       ELSE LET job == JOB_STORE[body.job_id]
            IN  IF Get(job, "status", "None") \notin SubmittableStatuses
                THEN requests' = [requests EXCEPT ![r] =
                        Answered(body.job_id, HttpError(400, "Job is already in status"))]
                ELSE IF Get(job, "image_urls", <<>>) = <<>>
                        /\ Get(job, "image_paths", <<>>) = <<>>
                THEN requests' = [requests EXCEPT ![r] =
                        Answered(body.job_id, HttpError(400, "Job has no images stored"))]
                ELSE requests' = [requests EXCEPT ![r] =
                        [pc |-> "write", body |-> body, job |-> job,
                         response |-> EmptyDict]]
    /\ response' = EmptyDict
    /\ UNCHANGED <<JOB_STORE, AUDIO_VOLUME, tasks, worker>>

\* submit_job, lines 148-151: genre, mood and status set on the copy, and the
\* copy assigned to the store.
SubmitWrite(r) ==
    /\ requests[r].pc = "write"
    /\ LET body == requests[r].body
           job == Put(Put(Put(requests[r].job, "genre", body.genre),
                          "mood", body.mood),
                      "status", "queued")
       IN  /\ StoreWrite(body.job_id, job)
           /\ requests' = [requests EXCEPT ![r].pc = "spawn", ![r].job = job]
    /\ response' = EmptyDict
    /\ UNCHANGED <<AUDIO_VOLUME, tasks, worker>>

\* submit_job, lines 153-156: _run_pipeline.spawn(job_id) and the answer.
SubmitSpawn(r) ==
    /\ requests[r].pc = "spawn"
    /\ tasks' = [tasks EXCEPT ![r] =
            [NoTask EXCEPT !.pc = "start", !.job_id = requests[r].body.job_id]]
    /\ requests' = [requests EXCEPT ![r] =
            Answered(requests[r].body.job_id,
                     HttpOk([job_id |-> requests[r].body.job_id, status |-> "queued"]))]
    /\ response' = EmptyDict
    /\ UNCHANGED <<JOB_STORE, AUDIO_VOLUME, worker>>

\* The locals _run_pipeline takes from its copy of the job (lines 53-59).
ImageSources(job) == Get(job, "image_urls", <<>>) \o Get(job, "image_paths", <<>>)
GenreOf(job) == Get(job, "genre", Pop)
MoodOf(job) == Get(job, "mood", Nostalgic)

\* The record of a failed run (lines 106-110), and the same without the
\* message of the exception.
FailedJob_NoMessage(job_id, error) == [job_id |-> job_id, status |-> "failed", error |-> <<>>]
FailedJob(job_id, error) == [job_id |-> job_id, status |-> "failed", error |-> error]
Ended(t, pc) == [NoTask EXCEPT !.pc = pc, !.job_id = tasks[t].job_id]

\* _run_pipeline, lines 49-59: the membership test and the one read of the
\* job; the copy is all the task knows of the job from here on.
PipelineStart(t) ==
    LET JobMissingHead ==
            <<"J","o","b"," ">>
        JobMissingTail ==
            <<" ","n","o","t"," ","f","o","u","n","d">>
    IN
    /\ tasks[t].pc = "start"
    /\ IF tasks[t].job_id \notin DOMAIN JOB_STORE
       THEN tasks' = [tasks EXCEPT ![t] =
                [Ended(t, "raised") EXCEPT
                    !.error = JobMissingHead \o tasks[t].job_id \o JobMissingTail]]
       ELSE tasks' = [tasks EXCEPT ![t].pc = "check",
                                   ![t].job = JOB_STORE[tasks[t].job_id]]
    /\ response' = EmptyDict
    /\ UNCHANGED <<JOB_STORE, AUDIO_VOLUME, requests, worker>>

\* _run_pipeline, lines 61-67: no image source on the copy.
PipelineNoImages(t) ==
    /\ tasks[t].pc = "check"
    /\ ImageSources(tasks[t].job) = <<>>
    /\ StoreWrite(tasks[t].job_id, FailedJob(tasks[t].job_id, NoImagesStored))
    /\ tasks' = [tasks EXCEPT ![t] = Ended(t, "returned")]
    /\ response' = EmptyDict
    /\ UNCHANGED <<AUDIO_VOLUME, requests, worker>>

\* A line 70 that reads the job from the store again instead of using the
\* copy of line 53.
PipelineProcessing_Rereading(t) ==
    /\ tasks[t].pc = "check"
    /\ ImageSources(tasks[t].job) # <<>>
    /\ StoreWrite(tasks[t].job_id, Put(JOB_STORE[tasks[t].job_id], "status", "processing"))
    /\ tasks' = [tasks EXCEPT ![t].pc = "captions",
                               ![t].job = JOB_STORE[tasks[t].job_id]]
    /\ response' = EmptyDict
    /\ UNCHANGED <<AUDIO_VOLUME, requests, worker>>

\* _run_pipeline, line 70.
PipelineProcessing(t) ==
    /\ tasks[t].pc = "check"
    /\ ImageSources(tasks[t].job) # <<>>
    /\ StoreWrite(tasks[t].job_id, Put(tasks[t].job, "status", "processing"))
    /\ tasks' = [tasks EXCEPT ![t].pc = "captions"]
    /\ response' = EmptyDict
    /\ UNCHANGED <<AUDIO_VOLUME, requests, worker>>

\* _run_pipeline, line 74.
StageCaptions(t) ==
    /\ tasks[t].pc = "captions"
    /\ \E unreadable \in 0..Len(ImageSources(tasks[t].job)) :
          LET captions == generate_photo_captions(ImageSources(tasks[t].job), unreadable)
          IN  tasks' = [tasks EXCEPT ![t] =
                  IF captions.raised
                  THEN [@ EXCEPT !.pc = "except", !.error = captions.message]
                  ELSE [@ EXCEPT !.pc = "summary", !.captions = captions.value]]
    /\ response' = EmptyDict
    /\ UNCHANGED <<JOB_STORE, AUDIO_VOLUME, requests, worker>>

\* summarize_captions and generate_lyrics are functions of their arguments
\* and of what the LLM call does.  They are tabulated here, once, over every
\* argument a run can pass: the captions of the sources an upload can store,
\* the summaries of those captions, the genres and moods of a submit body
\* (or the defaults of lines 56-57).
StoredSources ==
    UploadBodies \cup ({SavedPaths(job_id, files, 1) : job_id \in JobIds, files \in UploadFiles}
                          \ {<<>>})
CaptionLists == {Captions(image_sources) : image_sources \in StoredSources}
SummaryTable ==
    [captions \in CaptionLists, reply \in SummaryReplies |->
        summarize_captions(captions, reply)]
Summaries == {SummaryTable[captions, reply] : captions \in CaptionLists, reply \in SummaryReplies}
LyricsTable ==
    [summary \in Summaries, genre \in Genres \cup {Pop}, mood \in Moods \cup {Nostalgic},
     reply \in LyricsReplies |->
        generate_lyrics(summary, genre, mood, DefaultLinesPerVerse, DefaultNumVerses, reply)]

\* A summary stage that lets the exception of the LLM call through.
StageSummary_Raising(t) ==
    /\ tasks[t].pc = "summary"
    /\ \E reply \in SummaryReplies :
          tasks' = [tasks EXCEPT ![t] =
              IF reply = OtherError
              THEN [@ EXCEPT !.pc = "except", !.error = <<"e","r","r","o","r">>]
              ELSE [@ EXCEPT !.pc = "lyrics",
                             !.summary = SummaryTable[tasks[t].captions, reply]]]
    /\ response' = EmptyDict
    /\ UNCHANGED <<JOB_STORE, AUDIO_VOLUME, requests, worker>>

\* _run_pipeline, line 77: summarize_captions raises nothing.
StageSummary(t) ==
    /\ tasks[t].pc = "summary"
    /\ \E reply \in SummaryReplies :
          tasks' = [tasks EXCEPT ![t].pc = "lyrics",
                                 ![t].summary = SummaryTable[tasks[t].captions, reply]]
    /\ response' = EmptyDict
    /\ UNCHANGED <<JOB_STORE, AUDIO_VOLUME, requests, worker>>

\* _run_pipeline, line 80: generate_lyrics raises nothing.
StageLyrics(t) ==
    /\ tasks[t].pc = "lyrics"
    /\ \E reply \in LyricsReplies :
          tasks' = [tasks EXCEPT ![t].pc = "vocals",
                                 ![t].lyrics = LyricsTable[tasks[t].summary,
                                                           GenreOf(tasks[t].job),
                                                           MoodOf(tasks[t].job), reply]]
    /\ response' = EmptyDict
    /\ UNCHANGED <<JOB_STORE, AUDIO_VOLUME, requests, worker>>

\* _run_pipeline, lines 83-92: the audio directory, generate_vocals and the
\* commit of the volume.
StageVocals(t) ==
    /\ tasks[t].pc = "vocals"
    /\ \E synthesized \in BOOLEAN :
          LET audio_path == generate_vocals(tasks[t].job_id, tasks[t].lyrics, AudioDir,
                                            synthesized)
          IN  IF audio_path.raised
              THEN /\ tasks' = [tasks EXCEPT ![t].pc = "except",
                                             ![t].error = audio_path.message]
                   /\ UNCHANGED AUDIO_VOLUME
              ELSE /\ tasks' = [tasks EXCEPT ![t].pc = "package",
                                             ![t].audio_path = audio_path.value]
                   /\ AUDIO_VOLUME' = AUDIO_VOLUME \cup {audio_path.value}
    /\ response' = EmptyDict
    /\ UNCHANGED <<JOB_STORE, requests, worker>>

\* _run_pipeline, lines 95-103: package_result and the assignment of its
\* result to the store; the task returns.
StagePackage(t) ==
    /\ tasks[t].pc = "package"
    /\ StoreWrite(tasks[t].job_id,
                  package_result(tasks[t].job_id, tasks[t].captions, tasks[t].summary,
                                 tasks[t].lyrics, tasks[t].audio_path))
    /\ tasks' = [tasks EXCEPT ![t] = Ended(t, "returned")]
    /\ response' = EmptyDict
    /\ UNCHANGED <<AUDIO_VOLUME, requests, worker>>

\* An exception handler that marks the task's copy of the job failed and
\* stores it, keeping the other fields of the record.
PipelineExcept_KeepingFields(t) ==
    /\ tasks[t].pc = "except"
    /\ StoreWrite(tasks[t].job_id,
                  Put(Put(tasks[t].job, "status", "failed"), "error", tasks[t].error))
    /\ tasks' = [tasks EXCEPT ![t] = [Ended(t, "raised") EXCEPT !.error = tasks[t].error]]
    /\ response' = EmptyDict
    /\ UNCHANGED <<AUDIO_VOLUME, requests, worker>>

\* An exception handler that raises the exception again without recording
\* the failure in the store.
PipelineExcept_NotRecording(t) ==
    /\ tasks[t].pc = "except"
    /\ tasks' = [tasks EXCEPT ![t] = [Ended(t, "raised") EXCEPT !.error = tasks[t].error]]
    /\ response' = EmptyDict
    /\ UNCHANGED <<JOB_STORE, AUDIO_VOLUME, requests, worker>>

\* _run_pipeline, lines 105-111: the handler of any exception of the try
\* block; the exception is raised again and ends the task.
PipelineExcept(t) ==
    /\ tasks[t].pc = "except"
    /\ StoreWrite(tasks[t].job_id, FailedJob(tasks[t].job_id, tasks[t].error))
    /\ tasks' = [tasks EXCEPT ![t] = [Ended(t, "raised") EXCEPT !.error = tasks[t].error]]
    /\ response' = EmptyDict
    /\ UNCHANGED <<AUDIO_VOLUME, requests, worker>>

\* ----------------------------------------------------------- get_status.py
\* get_status without the membership test of lines 21-22, reading the store
\* with a default.
get_status_Unchecked(job_id) ==
    /\ response' = [op |-> "get_status", job_id |-> job_id,
                    answer |-> HttpOk(Get(JOB_STORE, job_id, EmptyDict))]
    /\ UNCHANGED <<JOB_STORE, AUDIO_VOLUME, requests, tasks, worker>>

\* GET /get_status: the membership test and one read; the answer is the dict
\* as stored.
get_status(job_id) ==
    /\ response' = [op |-> "get_status", job_id |-> job_id,
                    answer |-> IF job_id \notin DOMAIN JOB_STORE
                               THEN HttpError(404, "Job not found")
                               ELSE HttpOk(JOB_STORE[job_id])]
    /\ UNCHANGED <<JOB_STORE, AUDIO_VOLUME, requests, tasks, worker>>

\* --------------------------------------------------------- fetch_result.py
\* job.get(key): None when the key is missing.
GetOrNone(d, k) == IF k \in DOMAIN d THEN Some(d[k]) ELSE None

\* bool(x) of a str, a list or None.
Truthy(x) == x # None /\ x.value # <<>>

\* fetch_result without the status check of lines 20-25.
FetchView_NoStatusCheck(job) ==
    [job_id |-> GetOrNone(job, "job_id"),
     status |-> GetOrNone(job, "status"),
     genre |-> GetOrNone(job, "genre"),
     mood |-> GetOrNone(job, "mood"),
     captions |-> GetOrNone(job, "captions"),
     summary |-> GetOrNone(job, "summary"),
     lyrics |-> GetOrNone(job, "lyrics"),
     audio_path |-> GetOrNone(job, "audio_url"),
     audio_url |-> GetOrNone(job, "audio_url"),
     audio_filename |-> GetOrNone(job, "audio_filename")]

\* The answer fetch_result builds from its one read of the job.
FetchView(job) ==
    IF GetOrNone(job, "status") # Some("complete")
    THEN [job_id |-> GetOrNone(job, "job_id"),
          status |-> GetOrNone(job, "status"),
          message |-> "Job not complete yet"]
    ELSE LET audio == IF Truthy(GetOrNone(job, "audio_url"))
                      THEN GetOrNone(job, "audio_url")
                      ELSE GetOrNone(job, "audio_path")
         IN  [job_id |-> GetOrNone(job, "job_id"),
              status |-> Some("complete"),
              genre |-> GetOrNone(job, "genre"),
              mood |-> GetOrNone(job, "mood"),
              captions |-> GetOrNone(job, "captions"),
              summary |-> GetOrNone(job, "summary"),
              lyrics |-> GetOrNone(job, "lyrics"),
              audio_path |-> audio,
              audio_url |-> audio,
              audio_filename |-> GetOrNone(job, "audio_filename")]

\* GET /fetch_result
fetch_result(job_id) ==
    /\ response' = [op |-> "fetch_result", job_id |-> job_id,
                    answer |-> IF job_id \notin DOMAIN JOB_STORE
                               THEN HttpError(404, "Job not found")
                               ELSE HttpOk(FetchView(JOB_STORE[job_id]))]
    /\ UNCHANGED <<JOB_STORE, AUDIO_VOLUME, requests, tasks, worker>>

\* ------------------------------------------------------- download_audio.py
\* GET /download_audio: the file streamed and the name in its
\* Content-Disposition header.
DownloadView(job) ==
    IF Get(job, "status", "None") # "complete" THEN HttpError(404, "Audio not ready")
    ELSE IF ~Truthy(GetOrNone(job, "_audio_file_path"))
    THEN HttpError(404, "Audio not available")
    ELSE IF job["_audio_file_path"] \notin AUDIO_VOLUME
    THEN HttpError(404, "Audio file missing")
    ELSE HttpOk([file |-> job["_audio_file_path"],
                 filename |-> IF Truthy(GetOrNone(job, "audio_filename"))
                              THEN job["audio_filename"]
                              ELSE Basename(job["_audio_file_path"])])

download_audio(job_id) ==
    /\ response' = [op |-> "download_audio", job_id |-> job_id,
                    answer |-> IF job_id \notin DOMAIN JOB_STORE
                               THEN HttpError(404, "Job not found")
                               ELSE DownloadView(JOB_STORE[job_id])]
    /\ UNCHANGED <<JOB_STORE, AUDIO_VOLUME, requests, tasks, worker>>\* ------------------------------------------------- the workers on their own
\* The texts _looks_like_valid_summary is called with.
SummaryTexts ==
    LET
        Empty ==
            <<>>
        Blank ==
            <<" "," "," "," ">>
        FiveWords ==
            <<"K","i","d","s"," ","p","l","a","y"," ","a","t"," ","t","h","e"," ","b","e","a",
              "c","h",".">>
        SevenWords ==
            <<"K","i","d","s"," ","p","l","a","y"," ","a","t"," ","t","h","e"," ","b","e","a",
              "c","h"," ","a","l","l"," ","d","a","y",".">>
        EightWords ==
            <<"K","i","d","s"," ","p","l","a","y"," ","a","t"," ","t","h","e"," ","s","u","n",
              "n","y"," ","b","e","a","c","h"," ","a","l","l"," ","d","a","y",".">>
        TenWords ==
            <<"a"," ","f","a","m","i","l","y"," ","g","a","t","h","e","r","s"," ","a","t"," ",
              "t","h","e"," ","b","e","a","c","h"," ","t","o"," ","s","h","a","r","e"," ","w",
              "a","r","m"," ","m","e","m","o","r","i","e","s">>
        TenWordsSpacedOut ==
            <<"a"," "," "," "," ","b"," "," "," "," ","c"," "," "," "," ","d"," "," "," "," ",
              "e"," "," "," "," ","f"," "," "," "," ","g"," "," "," "," ","h"," "," "," "," ",
              "i"," "," "," "," ","j">>
        Accented ==
            <<"T","h","e"," ","f","a","m","i","l","y"," ","m","e","e","t","s"," ","a","t"," ",
              "t","h","e"," ","c","a","f","U+00E9"," ","n","e","a","r"," ","t","h","e"," ","o",
              "l","d"," ","h","a","r","b","o","u","r",".">>
        MostlyDigits ==
            <<"1"," ","2"," ","3"," ","4"," ","5"," ","6"," ","7"," ","a","t">>
        FortyPercent ==
            <<"a","b"," ","1"," ","c","d"," ","2"," ","e","f"," ","3"," ","g","h"," ","4","5">>
        UnderForty ==
            <<"a","b"," ","1"," ","c","d"," ","2"," ","e","f"," ","3"," ","g","h"," ","4","5",
              "6">>
        TabsAndNewlines ==
            <<"K","i","d","s","\t","p","l","a","y","\n","a","t"," ","t","h","e","\r","\n","b",
              "e","a","c","h"," ","a","l","l"," ","d","a","y"," ","l","o","n","g",".">>
        FormFeed ==
            <<"K","i","d","s"," ","p","l","a","y"," ","a","t"," ","t","h","e","U+000C","s","u",
              "n","n","y"," ","b","e","a","c","h"," ","a","l","l"," ","d","a","y"," ","l","o",
              "n","g",".">>
    IN  {GoodSummary, ShortSummary, Empty, Blank, FiveWords, SevenWords, EightWords, TenWords,
         TenWordsSpacedOut, Accented, MostlyDigits, FortyPercent, UnderForty, TabsAndNewlines, FormFeed}

MaxLinesPerVerse == 7
MaxNumVerses == 3

\* The arguments _fallback_lyrics is called with: no summary, a summary of
\* one sentence, a summary of two sentences that quotes a section marker, a
\* summary with an accented letter, a summary with one keyword, a summary
\* whose first sentence runs over two lines; a genre in ASCII and one that is
\* not; every lines_per_verse and num_verses up to the bounds.
FallbackLyricsArgs ==
    LET Quoting ==
            <<"T","h","e"," ","b","a","n","n","e","r"," ","s","a","y","s"," ","[","V","e","r",
              "s","e"," ","1","]"," ","o","v","e","r"," ","t","h","e"," ","p","i","c","n","i",
              "c"," ","t","a","b","l","e","."," ","E","v","e","r","y","o","n","e"," ","s","i",
              "n","g","s"," ","t","h","e"," ","[","C","h","o","r","u","s","]"," ","t","w","i",
              "c","e",".">>
        Accented ==
            <<"T","h","e"," ","f","a","m","i","l","y"," ","m","e","e","t","s"," ","a","t"," ",
              "t","h","e"," ","c","a","f","U+00E9"," ","n","e","a","r"," ","t","h","e"," ","o",
              "l","d"," ","h","a","r","b","o","u","r",".">>
        OneKeyword ==
            <<"W","e"," ","l","a","u","g","h",".">>
        TwoLines ==
            <<"H","e","r","e"," ","i","s"," ","t","h","e"," ","s","u","m","m","a","r","y",":",
              "\n","A"," ","f","a","m","i","l","y"," ","g","a","t","h","e","r","s"," ","a","t",
              " ","t","h","e"," ","b","e","a","c","h",".">>
        YeYe ==
            <<"Y","U+00E9","-","y","U+00E9">>
    IN  [summary : {<<>>, GoodSummary, Quoting, Accented, OneKeyword, TwoLines},
         genre : {Pop, YeYe}, mood : {Happy},
         lines_per_verse : 0..MaxLinesPerVerse, num_verses : 0..MaxNumVerses]

\* The texts _looks_like_valid_lyrics is called with.
LyricsTexts ==
    LET
        Empty ==
            <<>>
        TwentyWords ==
            <<"[","V","e","r","s","e"," ","1","]","\n","s","u","n"," ","s","a","n","d"," ","s",
              "e","a"," ","w","i","n","d"," ","w","a","v","e","s"," ","s","h","e","l","l","s",
              " ","k","i","t","e","s"," ","g","u","l","l","s"," ","b","o","a","t","s","\n","\n",
              "[","C","h","o","r","u","s","]","\n","b","o","a","t","s"," ","d","u","n","e","s",
              " ","t","i","d","e","s"," ","f","o","a","m"," ","s","a","l","t"," ","s","k","y",
              " ","l","i","g","h","t"," ","l","a","u","g","h">>
        NineteenWords ==
            <<"[","V","e","r","s","e"," ","1","]","\n","s","u","n"," ","s","a","n","d"," ","s",
              "e","a"," ","w","i","n","d"," ","w","a","v","e","s"," ","s","h","e","l","l","s",
              " ","k","i","t","e","s"," ","g","u","l","l","s"," ","b","o","a","t","s","\n","\n",
              "[","C","h","o","r","u","s","]","\n","d","u","n","e","s"," ","t","i","d","e","s",
              " ","f","o","a","m"," ","s","a","l","t"," ","s","k","y"," ","l","i","g","h","t",
              " ","l","a","u","g","h">>
        NoChorus ==
            <<"[","V","e","r","s","e"," ","1","]","\n","s","u","n"," ","s","a","n","d"," ","s",
              "e","a"," ","w","i","n","d"," ","w","a","v","e","s"," ","s","h","e","l","l","s",
              " ","k","i","t","e","s"," ","g","u","l","l","s"," ","b","o","a","t","s"," ","d",
              "u","n","e","s"," ","t","i","d","e","s"," ","f","o","a","m"," ","s","a","l","t",
              " ","s","k","y"," ","l","i","g","h","t"," ","l","a","u","g","h","\n","\n","[","V",
              "e","r","s","e"," ","2","]","\n","s","u","n"," ","s","a","n","d"," ","s","e","a",
              " ","w","i","n","d"," ","w","a","v","e","s"," ","s","h","e","l","l","s"," ","k",
              "i","t","e","s"," ","g","u","l","l","s">>
        NoVerse ==
            <<"[","C","h","o","r","u","s","]","\n","s","u","n"," ","s","a","n","d"," ","s","e",
              "a"," ","w","i","n","d"," ","w","a","v","e","s"," ","s","h","e","l","l","s"," ",
              "k","i","t","e","s"," ","g","u","l","l","s"," ","b","o","a","t","s"," ","d","u",
              "n","e","s"," ","t","i","d","e","s"," ","f","o","a","m"," ","s","a","l","t"," ",
              "s","k","y"," ","l","i","g","h","t"," ","l","a","u","g","h","\n","\n","[","C","h",
              "o","r","u","s","]","\n","s","u","n"," ","s","a","n","d"," ","s","e","a"," ","w",
              "i","n","d"," ","w","a","v","e","s"," ","s","h","e","l","l","s"," ","k","i","t",
              "e","s"," ","g","u","l","l","s">>
        LowerCaseMarkers ==
            <<"[","v","e","r","s","e"," ","1","]","\n","s","u","n"," ","s","a","n","d"," ","s",
              "e","a"," ","w","i","n","d"," ","w","a","v","e","s"," ","s","h","e","l","l","s",
              " ","k","i","t","e","s"," ","g","u","l","l","s"," ","b","o","a","t","s"," ","d",
              "u","n","e","s"," ","t","i","d","e","s"," ","f","o","a","m"," ","s","a","l","t",
              " ","s","k","y"," ","l","i","g","h","t"," ","l","a","u","g","h","\n","\n","[","c",
              "h","o","r","u","s","]","\n","s","u","n"," ","s","a","n","d"," ","s","e","a"," ",
              "w","i","n","d"," ","w","a","v","e","s"," ","s","h","e","l","l","s"," ","k","i",
              "t","e","s"," ","g","u","l","l","s">>
        OpenChorus ==
            <<"[","V","e","r","s","e"," ","1","]","\n","s","u","n"," ","s","a","n","d"," ","s",
              "e","a"," ","w","i","n","d"," ","w","a","v","e","s"," ","s","h","e","l","l","s",
              " ","k","i","t","e","s"," ","g","u","l","l","s"," ","b","o","a","t","s"," ","d",
              "u","n","e","s"," ","t","i","d","e","s"," ","f","o","a","m"," ","s","a","l","t",
              " ","s","k","y"," ","l","i","g","h","t"," ","l","a","u","g","h","\n","\n","[","C",
              "h","o","r","u","s"," ","1","]","\n","s","u","n"," ","s","a","n","d"," ","s","e",
              "a"," ","w","i","n","d"," ","w","a","v","e","s"," ","s","h","e","l","l","s"," ",
              "k","i","t","e","s"," ","g","u","l","l","s">>
        BareVerse ==
            <<"[","V","e","r","s","e","]","\n","s","u","n"," ","s","a","n","d"," ","s","e","a",
              " ","w","i","n","d"," ","w","a","v","e","s"," ","s","h","e","l","l","s"," ","k",
              "i","t","e","s"," ","g","u","l","l","s"," ","b","o","a","t","s"," ","d","u","n",
              "e","s"," ","t","i","d","e","s"," ","f","o","a","m"," ","s","a","l","t"," ","s",
              "k","y"," ","l","i","g","h","t"," ","l","a","u","g","h","\n","\n","[","C","h","o",
              "r","u","s","]","\n","s","u","n"," ","s","a","n","d"," ","s","e","a"," ","w","i",
              "n","d"," ","w","a","v","e","s"," ","s","h","e","l","l","s"," ","k","i","t","e",
              "s"," ","g","u","l","l","s">>
        AccentedLine ==
            <<"[","V","e","r","s","e"," ","1","]","\n","s","u","n"," ","s","a","n","d"," ","s",
              "e","a"," ","w","i","n","d"," ","w","a","v","e","s"," ","s","h","e","l","l","s",
              " ","k","i","t","e","s"," ","g","u","l","l","s"," ","b","o","a","t","s"," ","d",
              "u","n","e","s"," ","t","i","d","e","s"," ","f","o","a","m"," ","s","a","l","t",
              " ","s","k","y"," ","l","i","g","h","t"," ","l","a","u","g","h"," ","c","a","f",
              "U+00E9","\n","\n","[","C","h","o","r","u","s","]","\n","s","u","n"," ","s","a",
              "n","d"," ","s","e","a"," ","w","i","n","d"," ","w","a","v","e","s"," ","s","h",
              "e","l","l","s"," ","k","i","t","e","s"," ","g","u","l","l","s">>
        FormFeedLine ==
            <<"[","V","e","r","s","e"," ","1","]","\n","s","u","n"," ","s","a","n","d"," ","s",
              "e","a"," ","w","i","n","d"," ","w","a","v","e","s"," ","s","h","e","l","l","s",
              " ","k","i","t","e","s"," ","g","u","l","l","s"," ","b","o","a","t","s"," ","d",
              "u","n","e","s"," ","t","i","d","e","s"," ","f","o","a","m"," ","s","a","l","t",
              " ","s","k","y"," ","l","i","g","h","t"," ","l","a","u","g","h","U+000C","\n","[",
              "C","h","o","r","u","s","]","\n","s","u","n"," ","s","a","n","d"," ","s","e","a",
              " ","w","i","n","d"," ","w","a","v","e","s"," ","s","h","e","l","l","s"," ","k",
              "i","t","e","s"," ","g","u","l","l","s">>
        MarkersOnly ==
            <<"[","V","e","r","s","e"," ","1","]"," ","[","C","h","o","r","u","s","]">>
    IN  {GoodLyrics, BadLyrics, Empty, TwentyWords, NineteenWords, NoChorus, NoVerse,
         LowerCaseMarkers, OpenChorus, BareVerse, AccentedLine, FormFeedLine, MarkersOnly}

MaxCaptions == 4
MaxSamples == 2
MaxDuration == 10

\* The caption lists _fallback_summary is called with: every list of up to
\* MaxCaptions of the three captions, repeated captions included.
FallbackSummaryArgs ==
    UNION {[captions : [1..n -> {DogCaption, BeachCaption, PhotoCaption}]] : n \in 0..MaxCaptions}

\* Outputs of the vocal model handed to generate_vocals: tensors of one
\* dimension or of two (of 1 or 2 rows) of up to MaxSamples columns, whose
\* samples are silent (0, 0.0005), at the threshold (0.001) or loud (0.5,
\* -0.5); a list and a tuple holding such a tensor, an empty list, and an
\* object of another type.
BarkOutputs ==
    LET Amplitudes == {0, 5, 10, 5000, 0 - 5000}
        Rows == UNION {[1..n -> Amplitudes] : n \in 0..MaxSamples}
        OneDim == {Tensor(1, row) : row \in Rows}
        TwoDim == UNION {{Tensor(2, rows) : rows \in [1..r -> [1..n -> Amplitudes]]} :
                            r \in 1..2, n \in 0..MaxSamples}
        Wrapped == {Tensor(1, <<a>>) : a \in Amplitudes}
    IN  [audio : OneDim \cup TwoDim
                 \cup {[type |-> "list", items |-> <<t>>] : t \in Wrapped}
                 \cup {[type |-> "tuple", items |-> <<t>>] : t \in Wrapped}
                 \cup {[type |-> "list", items |-> <<>>],
                       [type |-> "ndarray"]}]

\* Calls of mix_audio_tracks: an instrumental and a vocal track of 0 to
\* MaxDuration seconds each, and the step that raises, if one does.
MixArgs ==
    [music_path : {<<"m", "u", "s", "i", "c", ".", "w", "a", "v">>},
     vocals_path : {<<"v", "o", "c", "a", "l", "s", ".", "w", "a", "v">>},
     output_path : {<<"f", "i", "n", "a", "l", ".", "w", "a", "v">>},
     music_duration : 0..MaxDuration,
     vocals_duration : 0..MaxDuration,
     fails : MixSteps \cup {"none"}]

\* A call of one worker function: idle until it has returned.
Call(fn, args) == [fn |-> fn, args |-> args, result |-> None]
WorkerCalls ==
    {Call("_fallback_lyrics", args) : args \in FallbackLyricsArgs}
        \cup {Call("_looks_like_valid_summary", [text |-> text]) : text \in SummaryTexts}
        \cup {Call("_looks_like_valid_lyrics", [text |-> text]) : text \in LyricsTexts}
        \cup {Call("_fallback_summary", args) : args \in FallbackSummaryArgs}
        \cup {Call("generate_vocals", args) : args \in BarkOutputs}
        \cup {Call("mix_audio_tracks", args) : args \in MixArgs}

WorkerInit ==
    /\ JOB_STORE = EmptyDict
    /\ AUDIO_VOLUME = {}
    /\ requests = [r \in Calls |-> IdleRequest]
    /\ tasks = [t \in Calls |-> NoTask]
    /\ response = EmptyDict
    /\ worker \in WorkerCalls

FallbackLyricsCall ==
    /\ worker.fn = "_fallback_lyrics"
    /\ worker.result = None
    /\ worker' = [worker EXCEPT !.result =
            Some(_fallback_lyrics(worker.args.summary, worker.args.genre, worker.args.mood,
                                  worker.args.lines_per_verse, worker.args.num_verses))]
    /\ UNCHANGED <<JOB_STORE, AUDIO_VOLUME, requests, tasks, response>>

SummaryGateCall ==
    /\ worker.fn = "_looks_like_valid_summary"
    /\ worker.result = None
    /\ worker' = [worker EXCEPT !.result = Some(_looks_like_valid_summary(worker.args.text))]
    /\ UNCHANGED <<JOB_STORE, AUDIO_VOLUME, requests, tasks, response>>

LyricsGateCall ==
    /\ worker.fn = "_looks_like_valid_lyrics"
    /\ worker.result = None
    /\ worker' = [worker EXCEPT !.result = Some(_looks_like_valid_lyrics(worker.args.text))]
    /\ UNCHANGED <<JOB_STORE, AUDIO_VOLUME, requests, tasks, response>>

FallbackSummaryCall ==
    /\ worker.fn = "_fallback_summary"
    /\ worker.result = None
    /\ worker' = [worker EXCEPT !.result = Some(_fallback_summary(worker.args.captions))]
    /\ UNCHANGED <<JOB_STORE, AUDIO_VOLUME, requests, tasks, response>>

\* generate_vocals, lines 176-198, on one output of the vocal model
VocalWaveformCall ==
    /\ worker.fn = "generate_vocals"
    /\ worker.result = None
    /\ worker' = [worker EXCEPT !.result = Some(VocalWaveform(worker.args.audio))]
    /\ UNCHANGED <<JOB_STORE, AUDIO_VOLUME, requests, tasks, response>>

\* mix_audio_tracks on one pair of tracks
MixCall ==
    /\ worker.fn = "mix_audio_tracks"
    /\ worker.result = None
    /\ worker' = [worker EXCEPT !.result = Some(mix_audio_tracks(worker.args))]
    /\ UNCHANGED <<JOB_STORE, AUDIO_VOLUME, requests, tasks, response>>

\* ----------------------------------------------------------- specification
Upload ==
    \/ \E image_urls \in UploadBodies : upload_photo(image_urls)
    \/ \E files \in UploadFiles : upload_photo_files(files)

Submit ==
    \/ \E r \in Calls, body \in SubmitBodies : SubmitRead(r, body)
    \/ \E r \in Calls : SubmitWrite(r)
    \/ \E r \in Calls : SubmitSpawn(r)

\* One step of the task spawned by call t.
PipelineStep(t) ==
    \/ PipelineStart(t)
    \/ PipelineNoImages(t)
    \/ PipelineProcessing(t)
    \/ StageCaptions(t)
    \/ StageSummary(t)
    \/ StageLyrics(t)
    \/ StageVocals(t)
    \/ StagePackage(t)
    \/ PipelineExcept(t)

Pipeline == \E t \in Calls : PipelineStep(t)

Read ==
    \/ \E job_id \in JobIds : get_status(job_id)
    \/ \E job_id \in JobIds : fetch_result(job_id)
    \/ \E job_id \in JobIds : download_audio(job_id)

\* The endpoints and the task that write the job store.
Next == Upload \/ Submit \/ Pipeline

Spec == Init /\ [][Next]_vars

\* The same, with the three endpoints that only read it.
ReadNext == Next \/ Read

ReadSpec == Init /\ [][ReadNext]_vars

\* A worker function called once, directly, with any of the arguments above.
WorkerNext == FallbackLyricsCall \/ SummaryGateCall \/ LyricsGateCall
    \/ FallbackSummaryCall
    \/ VocalWaveformCall
    \/ MixCall

WorkerSpec == WorkerInit /\ [][WorkerNext]_vars

\* Modal runs every spawned task: a task that can take its next step takes
\* it.  Nothing makes a client call an endpoint.
FairSpec == Spec /\ \A t \in Calls : WF_vars(PipelineStep(t))

\* The same, with every call of submit_job that passed its checks running on
\* to its answer: the write of line 151 and the spawn of line 154 return.
SettleSpec ==
    FairSpec /\ \A r \in Calls : WF_vars(SubmitWrite(r) \/ SubmitSpawn(r))

\* ------------------------------------------------------------- properties
Status(job_id) == Get(JOB_STORE[job_id], "status", "None")
ActiveTask(t) == tasks[t].pc \notin {"none", "returned", "raised"}

\* The call of request r reads the job in this step (lines 128-131).
Reads(r, job_id) ==
    /\ requests[r].pc = "idle"
    /\ requests'[r].pc # "idle"
    /\ requests'[r].body.job_id = job_id
    /\ job_id \in DOMAIN JOB_STORE

\* C1: under any interleaving of submit_job requests and _run_pipeline
\* tasks, at most one pipeline execution is active for a job_id at a time;
\* two submit_job calls racing on a created job never both spawn the task.
C1_OnePipelinePerJob ==
    \A t1, t2 \in Calls :
        (ActiveTask(t1) /\ ActiveTask(t2) /\ tasks[t1].job_id = tasks[t2].job_id)
            => t1 = t2

\* C2: each change of a job's stored status follows one of the edges
\* created->queued, queued->processing, processing->complete,
\* processing->failed, failed->queued; nothing leaves complete, nothing
\* skips processing.
StatusEdges ==
    {<<"created", "queued">>, <<"queued", "processing">>,
     <<"processing", "complete">>, <<"processing", "failed">>,
     <<"failed", "queued">>}
C2_StatusEdges ==
    [][\A job_id \in DOMAIN JOB_STORE :
          Get(JOB_STORE'[job_id], "status", "None") # Status(job_id)
              => <<Status(job_id), Get(JOB_STORE'[job_id], "status", "None")>>
                     \in StatusEdges]_vars

\* C3: a submit_job call that reads the job's status as queued, processing
\* or complete is answered with HTTP 400, writes nothing to the job store
\* and spawns no task.
C3_RejectedSubmit ==
    [][\A r \in Calls, job_id \in JobIds :
          (Reads(r, job_id) /\ Status(job_id) \in {"queued", "processing", "complete"})
              => /\ requests'[r].pc = "done"
                 /\ requests'[r].response.status_code = 400
                 /\ JOB_STORE' = JOB_STORE
                 /\ tasks' = tasks]_vars
\* A second call answered 400 on a job whose run has completed.
C3_Witness ==
    \E r \in Calls :
        /\ requests[r].pc = "done"
        /\ requests[r].response = HttpError(400, "Job is already in status")
        /\ Status(requests[r].body.job_id) = "complete"

\* C4: in every reachable state, a job whose stored status is complete has
\* captions, summary, lyrics, audio_url and audio_filename present and
\* non-empty.
OutputKeys == {"captions", "summary", "lyrics", "audio_url", "audio_filename"}
C4_CompleteHasOutputs ==
    \A job_id \in DOMAIN JOB_STORE :
        Status(job_id) = "complete"
            => \A k \in OutputKeys :
                   k \in DOMAIN JOB_STORE[job_id] /\ JOB_STORE[job_id][k] # <<>>
C4_Witness ==
    \E job_id \in DOMAIN JOB_STORE :
        Status(job_id) = "complete" /\ \E t \in Calls : tasks[t].pc = "returned"

\* C5: a submit_job call on a job that was created with an image source and
\* whose run ended in failed passes the checks of the handler (and so goes
\* on to write status queued and to spawn a fresh run).
C5_FailedJobResubmits ==
    [][\A r \in Calls, job_id \in JobIds :
          (Reads(r, job_id) /\ Status(job_id) = "failed")
              => requests'[r].pc = "write"]_vars

\* C6: a run whose captioning stage has succeeded ends by storing status
\* complete unless the vocal stage raises, whatever the LLM does in the
\* summary and lyrics stages: those two stages never raise, the run is never
\* stuck in them, and the packaging step stores status complete.
C6_LlmNeverBlocks ==
    /\ [][\A t \in Calls :
             tasks[t].pc \in {"summary", "lyrics"}
                 => tasks'[t].pc \in {"summary", "lyrics", "vocals"}]_vars
    /\ [][\A t \in Calls :
             (tasks[t].pc = "package" /\ tasks'[t].pc # "package")
                 => /\ tasks'[t].pc = "returned"
                    /\ Get(JOB_STORE'[tasks[t].job_id], "status", "None") = "complete"]_vars
    /\ \A t \in Calls :
           (tasks[t].pc = "summary")
               ~> \/ tasks[t].pc = "returned"
                  \/ tasks[t].pc = "except" /\ tasks[t].error = SynthesisFailed
\* A job is complete with the summary and the lyrics the two stages produce
\* when the LLM server is unreachable.
C6_Witness ==
    \E job_id \in DOMAIN JOB_STORE, genre \in Genres, mood \in Moods :
        /\ Status(job_id) = "complete"
        /\ JOB_STORE[job_id].summary
               = summarize_captions(JOB_STORE[job_id].captions, RequestError)
        /\ JOB_STORE[job_id].lyrics
               = generate_lyrics(JOB_STORE[job_id].summary, genre, mood,
                                 DefaultLinesPerVerse, DefaultNumVerses, RequestError)

\* C7: whenever the LLM call of the summary stage fails (unreachable,
\* timeout, HTTP error or any other exception), summarize_captions returns
\* exactly _fallback_summary(captions).
FailedCalls == {RequestError, OtherError}
C7_FallbackOnFailure ==
    \A t \in Calls :
        tasks[t].pc = "summary"
            => \A reply \in FailedCalls :
                   summarize_captions(tasks[t].captions, reply)
                       = _fallback_summary(tasks[t].captions)

\* C8: when a stage raises (image load, vocal synthesis), the error the run
\* holds is the message of the exception; the run's next and last step
\* stores {job_id, status failed, error message} and runs no later stage;
\* the run then stays ended, and a new run starts only from a submit_job call.
C8_StageFailure ==
    /\ [][\A t \in Calls :
             (tasks[t].pc = "captions" /\ tasks'[t].pc = "except")
                 => \E i \in 1..Len(ImageSources(tasks[t].job)) :
                        tasks'[t].error \in {ImageNotFound \o ImageSources(tasks[t].job)[i],
                                             ClientError \o ImageSources(tasks[t].job)[i]}]_vars
    /\ [][\A t \in Calls :
             (tasks[t].pc = "vocals" /\ tasks'[t].pc = "except")
                 => tasks'[t].error = SynthesisFailed]_vars
    /\ [][\A t \in Calls :
             (tasks[t].pc = "except" /\ tasks'[t] # tasks[t])
                 => /\ tasks'[t].pc = "raised"
                    /\ JOB_STORE'[tasks[t].job_id]
                           = [job_id |-> tasks[t].job_id, status |-> "failed",
                              error |-> tasks[t].error]
                    /\ AUDIO_VOLUME' = AUDIO_VOLUME]_vars
    /\ [][\A t \in Calls :
             /\ tasks[t].pc = "raised" => tasks'[t] = tasks[t]
             /\ (tasks[t].pc = "none" /\ tasks'[t].pc # "none")
                    => requests[t].pc = "spawn" /\ requests'[t].pc = "done"]_vars
\* A run ended by the exception of the vocal stage, its message stored.
C8_Witness ==
    \E t \in Calls :
        /\ tasks[t].pc = "raised"
        /\ tasks[t].error = SynthesisFailed
        /\ JOB_STORE[tasks[t].job_id]
               = [job_id |-> tasks[t].job_id, status |-> "failed", error |-> SynthesisFailed]

\* C9: whenever a stage of a run starts, the output of the stage before it
\* is already in the job store: captions when the summary stage starts,
\* summary when the lyrics stage starts, lyrics when the vocal stage starts.
C9_StageOutputsRecorded ==
    \A t \in Calls :
        /\ tasks[t].pc = "summary"
               => GetOrNone(JOB_STORE[tasks[t].job_id], "captions") = Some(tasks[t].captions)
        /\ tasks[t].pc = "lyrics"
               => GetOrNone(JOB_STORE[tasks[t].job_id], "summary") = Some(tasks[t].summary)
        /\ tasks[t].pc = "vocals"
               => GetOrNone(JOB_STORE[tasks[t].job_id], "lyrics") = Some(tasks[t].lyrics)

\* C10: the record get_status or fetch_result answers with is one record of
\* the store, written as a whole by one write: its keys are those of one
\* write, get_status returns it as stored, and fetch_result takes every
\* field of its answer from it.
UploadKeys == {"job_id", "status", "image_urls", "image_paths"}
SubmitKeys == UploadKeys \cup {"genre", "mood"}
ResultKeys == {"job_id", "status", "captions", "summary", "lyrics", "audio_url",
               "audio_path", "audio_filename", "_audio_file_path"}
FailureKeys == {"job_id", "status", "error"}
WholeRecord(job) ==
    \/ job.status = "created" /\ DOMAIN job = UploadKeys
    \/ job.status \in {"queued", "processing"} /\ DOMAIN job = SubmitKeys
    \/ job.status = "complete" /\ DOMAIN job = ResultKeys
    \/ job.status = "failed" /\ DOMAIN job = FailureKeys
C10_ReadsSeeOneWrite ==
    (response # EmptyDict /\ response.answer.status_code = 200)
        => LET job == JOB_STORE[response.job_id]
               body == response.answer.body
           IN  /\ WholeRecord(job)
               /\ response.op = "get_status" => body = job
               /\ response.op = "fetch_result"
                      => IF job.status = "complete"
                         THEN /\ body.status = Some("complete")
                              /\ \A k \in {"captions", "summary", "lyrics", "audio_url",
                                           "audio_filename"} : body[k] = Some(job[k])
                         ELSE /\ DOMAIN body = {"job_id", "status", "message"}
                              /\ body.status = Some(job.status)
\* fetch_result answers with a complete record while a second run of the
\* same job is still active.
C10_Witness ==
    /\ response # EmptyDict
    /\ response.op = "fetch_result"
    /\ response.answer.status_code = 200
    /\ response.answer.body.status = Some("complete")
    /\ \E t \in Calls : ActiveTask(t) /\ tasks[t].job_id = response.job_id

\* C11: the image sources stored when the job was created (image_urls and
\* image_paths) stay in the job record, unchanged, through every later write
\* of the record: queued, processing, complete and failed.
C11_ImageSourcesKept ==
    [][\A job_id \in DOMAIN JOB_STORE :
          /\ GetOrNone(JOB_STORE'[job_id], "image_urls")
                = GetOrNone(JOB_STORE[job_id], "image_urls")
          /\ GetOrNone(JOB_STORE'[job_id], "image_paths")
                = GetOrNone(JOB_STORE[job_id], "image_paths")]_vars

\* C12: genre and mood, once written by submit_job, stay in the record while
\* the run is queued, processing and complete, and fetch_result on a
\* complete job answers with a genre and a mood of a submit body.
C12_GenreMoodKept ==
    /\ \A job_id \in DOMAIN JOB_STORE :
          Status(job_id) \in {"queued", "processing", "complete"}
              => {"genre", "mood"} \subseteq DOMAIN JOB_STORE[job_id]
    /\ (/\ response # EmptyDict
        /\ response.op = "fetch_result"
        /\ response.answer.status_code = 200
        /\ response.answer.body.status = Some("complete"))
          => /\ response.answer.body.genre \in {Some(genre) : genre \in Genres}
             /\ response.answer.body.mood \in {Some(mood) : mood \in Moods}

\* C13: in every reachable state a job record has an error field only if its
\* status is failed; no created, queued, processing or complete record
\* carries the error of an earlier failed run.
C13_ErrorOnlyWhenFailed ==
    \A job_id \in DOMAIN JOB_STORE :
        "error" \in DOMAIN JOB_STORE[job_id] => Status(job_id) = "failed"
\* A failed record with its error, after a further submit_job call on it has
\* been answered.
C13_Witness ==
    \E r \in Calls :
        /\ requests[r].pc = "done"
        /\ requests[r].response = HttpError(400, "Job has no images stored")
        /\ Status(requests[r].body.job_id) = "failed"
        /\ "error" \in DOMAIN JOB_STORE[requests[r].body.job_id]

\* C14: a submit_job call that reads a job record with no image source is
\* answered with HTTP 400, writes nothing to the job store and spawns no
\* task; so every record with status queued has at least one image source.
C14_NoImagesRejected ==
    /\ [][\A r \in Calls, job_id \in JobIds :
            (Reads(r, job_id) /\ ImageSources(JOB_STORE[job_id]) = <<>>)
                => /\ requests'[r].pc = "done"
                   /\ requests'[r].response.status_code = 400
                   /\ JOB_STORE' = JOB_STORE
                   /\ tasks' = tasks]_vars
    /\ [](\A job_id \in DOMAIN JOB_STORE :
            Status(job_id) = "queued" => ImageSources(JOB_STORE[job_id]) # <<>>)
\* A call answered 400 for a record without image sources; it spawned no
\* task.
C14_Witness ==
    \E r \in Calls :
        /\ requests[r].response = HttpError(400, "Job has no images stored")
        /\ ImageSources(JOB_STORE[requests[r].body.job_id]) = <<>>
        /\ tasks[r].pc = "none"

\* C15: submit_job, get_status, fetch_result and download_audio called with
\* a job_id that is not in the job store each answer 404 "Job not found",
\* leave the job store as it is and spawn no task.
C15_UnknownJobNotFound ==
    [][/\ \A r \in Calls :
            (/\ requests[r].pc = "idle"
             /\ requests'[r].pc # "idle"
             /\ requests'[r].body.job_id \notin DOMAIN JOB_STORE)
                => /\ requests'[r].response = HttpError(404, "Job not found")
                   /\ JOB_STORE' = JOB_STORE
                   /\ tasks' = tasks
       /\ (response' # EmptyDict /\ response'.job_id \notin DOMAIN JOB_STORE)
            => /\ response'.op \in {"get_status", "fetch_result", "download_audio"}
               /\ response'.answer = HttpError(404, "Job not found")
               /\ JOB_STORE' = JOB_STORE
               /\ tasks' = tasks]_vars
\* submit_job and then download_audio, both answered 404 on an empty store.
C15_Witness ==
    /\ JOB_STORE = EmptyDict
    /\ \E r \in Calls : requests[r].response = HttpError(404, "Job not found")
    /\ response # EmptyDict
    /\ response.op = "download_audio"
    /\ response.answer = HttpError(404, "Job not found")

\* C16: fetch_result answers with the captions, the summary, the lyrics and
\* the audio reference of the job exactly when the stored status is
\* complete; for any other status the answer holds only the job id, the
\* status and a message; and the call leaves the job store as it is.
C16_FetchResult ==
    /\ []((/\ response # EmptyDict
           /\ response.op = "fetch_result"
           /\ response.job_id \in DOMAIN JOB_STORE)
            => LET job == JOB_STORE[response.job_id]
                   body == response.answer.body
               IN  /\ response.answer.status_code = 200
                   /\ body.job_id = Some(job.job_id)
                   /\ body.status = Some(job.status)
                   /\ IF job.status = "complete"
                      THEN /\ body.captions = Some(job.captions)
                           /\ body.summary = Some(job.summary)
                           /\ body.lyrics = Some(job.lyrics)
                           /\ body.audio_url = Some(job.audio_url)
                           /\ body.audio_path = Some(job.audio_url)
                      ELSE DOMAIN body = {"job_id", "status", "message"})
    /\ [][(response' # EmptyDict /\ response'.op = "fetch_result")
            => JOB_STORE' = JOB_STORE]_vars
\* fetch_result has answered with the lyrics of a complete job.
C16_Witness ==
    /\ response # EmptyDict
    /\ response.op = "fetch_result"
    /\ response.answer.status_code = 200
    /\ response.answer.body.status = Some("complete")
    /\ Truthy(response.answer.body.lyrics)
    /\ \A t \in Calls : ~ActiveTask(t)

\* C17: within one run of the pipeline the stages run in the order
\* captioning, summarization, lyrics, vocal synthesis, packaging, each at
\* most once; the run reads the job record from the store once, at its start,
\* and works on that copy until it ends.
StageOrder ==
    {<<"none", "start">>, <<"start", "check">>, <<"start", "raised">>,
     <<"check", "returned">>, <<"check", "captions">>,
     <<"captions", "summary">>, <<"captions", "except">>,
     <<"summary", "lyrics">>, <<"lyrics", "vocals">>,
     <<"vocals", "package">>, <<"vocals", "except">>,
     <<"package", "returned">>, <<"except", "raised">>}
C17_StagesInOrder ==
    [][\A t \in Calls :
          /\ tasks'[t].pc # tasks[t].pc => <<tasks[t].pc, tasks'[t].pc>> \in StageOrder
          /\ (tasks[t].pc = "start" /\ tasks'[t].pc = "check")
                => tasks'[t].job = JOB_STORE[tasks[t].job_id]
          /\ (ActiveTask(t) /\ tasks[t].pc # "start" /\ tasks'[t].pc \notin {"returned", "raised"})
                => tasks'[t].job = tasks[t].job]_vars
\* A run that has been through the four stages before packaging while the
\* store holds another record than the copy it works on.
C17_Witness ==
    \E t \in Calls :
        /\ tasks[t].pc = "package"
        /\ tasks[t].captions # <<>>
        /\ tasks[t].summary # <<>>
        /\ tasks[t].lyrics # <<>>
        /\ tasks[t].audio_path # <<>>
        /\ Put(tasks[t].job, "status", "processing") # JOB_STORE[tasks[t].job_id]

\* C18: for every summary, genre, mood, lines_per_verse and num_verses, the
\* text _fallback_lyrics returns is accepted by _looks_like_valid_lyrics: it
\* has a verse marker and a chorus marker, no character outside printable
\* ASCII, tab, newline and carriage return, and at least 20 words.
C18_FallbackLyricsValid ==
    (worker.fn = "_fallback_lyrics" /\ worker.result # None)
        => _looks_like_valid_lyrics(worker.result.value)

\* The positions in text where pat begins.
Occurrences(text, pat) ==
    {i \in 1..(Len(text) - Len(pat) + 1) : SubSeq(text, i, i + Len(pat) - 1) = pat}
VerseMarkerOf(k) == VerseMarker \o <<" ">> \o IntText(k) \o <<"]">>

\* C19: for every summary and every num_verses = n, the text _fallback_lyrics
\* returns has the marker [Verse k] exactly once for each k in 1..n, in
\* ascending order, and no other verse marker; it has a [Chorus] marker, one
\* directly after the first verse and one after the last verse.
C19_FallbackLyricsMarkers ==
    (worker.fn = "_fallback_lyrics" /\ worker.result # None)
        => LET text == worker.result.value
               n == worker.args.num_verses
               verses == Occurrences(text, VerseMarker)
               choruses == Occurrences(text, ChorusMarker)
           IN  /\ Cardinality(verses) = n
               /\ \A k \in 1..n : Cardinality(Occurrences(text, VerseMarkerOf(k))) = 1
               /\ \A k \in 1..(n - 1) :
                     \A i \in Occurrences(text, VerseMarkerOf(k)),
                        j \in Occurrences(text, VerseMarkerOf(k + 1)) : i < j
               /\ Cardinality(choruses) >= 1
               /\ n >= 1 => \E c \in choruses :
                                /\ \A i \in Occurrences(text, VerseMarkerOf(1)) : i < c
                                /\ \A j \in verses \ Occurrences(text, VerseMarkerOf(1)) : c < j
               /\ \E c \in choruses : \A j \in verses : j < c

\* C20: _looks_like_valid_summary accepts a text if and only if the text is
\* not empty, at least 40% of its characters are alphabetic, every character
\* is printable ASCII, a tab, a newline or a carriage return, and it has at
\* least 8 words separated by white space; so it rejects every text of 5
\* words and accepts a text of 10 words of ASCII letters with one space
\* between them.
C20_SummaryGate ==
    (worker.fn = "_looks_like_valid_summary" /\ worker.result # None)
        => LET text == worker.args.text
               accepted == worker.result.value
               blank == {" ", "\t", "\n", "\r"}
               letters == {i \in 1..Len(text) : IsAlpha(text[i])}
               printable ==
                   \A i \in 1..Len(text) :
                       text[i] \in Lower \cup Upper \cup Digits \cup Punct \cup blank
               words == {i \in 1..Len(text) :
                            /\ text[i] \notin blank
                            /\ IF i = 1 THEN TRUE ELSE text[i - 1] \in blank}
           IN  /\ accepted <=> /\ Len(text) > 0
                               /\ 100 * Cardinality(letters) >= 40 * Len(text)
                               /\ printable
                               /\ Cardinality(words) >= 8
               /\ Cardinality(words) = 5 => ~accepted
               /\ (/\ Cardinality(words) = 10
                   /\ \A i \in 1..Len(text) : text[i] \in Lower \cup Upper \cup {" "}
                   /\ Len(text) = Cardinality(letters) + 9)
                     => accepted
\* The gate has accepted a text of 10 words of letters.
C20_Witness ==
    /\ worker.fn = "_looks_like_valid_summary"
    /\ worker.result = Some(TRUE)
    /\ WordCount(worker.args.text) = 10
    /\ AlphaCount(worker.args.text) + 9 = Len(worker.args.text)

\* C21: _looks_like_valid_lyrics accepts a text if and only if the text
\* contains the verse marker "[Verse" and the chorus marker "[Chorus]"
\* literally, has no character outside printable ASCII, tab, newline and
\* carriage return, and has at least 20 words separated by white space.
C21_LyricsGate ==
    (worker.fn = "_looks_like_valid_lyrics" /\ worker.result # None)
        => LET text == worker.args.text
               accepted == worker.result.value
               blank == {" ", "\t", "\n", "\r"}
               printable ==
                   \A i \in 1..Len(text) :
                       text[i] \in Lower \cup Upper \cup Digits \cup Punct \cup blank
               words == {i \in 1..Len(text) :
                            /\ text[i] \notin blank
                            /\ IF i = 1 THEN TRUE ELSE text[i - 1] \in blank}
           IN  accepted <=> /\ Occurrences(text, <<"[","V","e","r","s","e">>) # {}
                            /\ Occurrences(text, <<"[","C","h","o","r","u","s","]">>) # {}
                            /\ printable
                            /\ Cardinality(words) >= 20
\* The gate has accepted a text of exactly 20 words.
C21_Witness ==
    /\ worker.fn = "_looks_like_valid_lyrics"
    /\ worker.result = Some(TRUE)
    /\ WordCount(worker.args.text) = 20

\* C22: _fallback_summary depends on the caption list alone and picks its
\* template by the number of captions: with 1 caption the text contains that
\* caption, with 2 it contains both, with 3 or more it contains the first
\* two, then the words "and more", and nothing of the later captions (the
\* text is the same whatever they are, and a later caption occurs in it only
\* where one of the first two holds it).
C22_FallbackSummaryTemplates ==
    (worker.fn = "_fallback_summary" /\ worker.result # None)
        => LET captions == worker.args.captions
               text == worker.result.value
               n == Len(captions)
               AndMore == <<",", " ", "a", "n", "d", " ", "m", "o", "r", "e">>
           IN  /\ n = 1 => /\ Contains(text, captions[1])
                           /\ Contains(text, <<"T","h","i","s"," ","i","m","a","g","e">>)
               /\ n = 2 => /\ Contains(text, captions[1])
                           /\ Contains(text, captions[2])
                           /\ ~Contains(text, AndMore)
               /\ n >= 3 => /\ Contains(text, captions[1] \o <<",", " ">> \o captions[2] \o AndMore)
                            /\ \A k \in 3..n :
                                  Contains(text, captions[k])
                                      => \/ Contains(captions[1], captions[k])
                                         \/ Contains(captions[2], captions[k])
                            /\ text = _fallback_summary(<<captions[1], captions[2], <<"x">>>>)
\* The third template has been used on a list of four captions.
C22_Witness ==
    /\ worker.fn = "_fallback_summary"
    /\ worker.result # None
    /\ Len(worker.args.captions) = 4
    /\ worker.args.captions[3] # worker.args.captions[1]
    /\ Contains(worker.result.value, <<"a","n","d"," ","m","o","r","e">>)

\* text.split("\n")
RECURSIVE LinesOf(_)
LinesOf(text) ==
    LET breaks == {i \in 1..Len(text) : text[i] = "\n"}
    IN  IF breaks = {} THEN <<text>>
        ELSE LET i == CHOOSE b \in breaks : \A k \in breaks : b <= k
             IN  <<SubSeq(text, 1, i - 1)>> \o LinesOf(SubSeq(text, i + 1, Len(text)))

\* C23: in the text _fallback_lyrics returns, every verse section (the lines
\* after a [Verse k] line, up to the next empty line) has exactly
\* lines_per_verse lines and every chorus section has
\* max(4, min(6, lines_per_verse)) lines, whatever lines_per_verse >= 0 and
\* whatever the keyword pool: empty, or shorter than the lines to pad.
C23_FallbackLyricsLineCounts ==
    (worker.fn = "_fallback_lyrics" /\ worker.result # None)
        => LET lines == LinesOf(worker.result.value)
               lines_per_verse == worker.args.lines_per_verse
               IsVerse(l) == Len(l) >= 7 /\ SubSeq(l, 1, 7) = <<"[","V","e","r","s","e"," ">>
               IsChorus(l) == l = <<"[","C","h","o","r","u","s","]">>
               BodyLen(h) ==
                   CHOOSE n \in 0..(Len(lines) - h) :
                       /\ \A k \in 1..n : lines[h + k] # <<>>
                       /\ IF h + n = Len(lines) THEN TRUE ELSE lines[h + n + 1] = <<>>
           IN  /\ Cardinality({h \in 1..Len(lines) : IsVerse(lines[h])})
                     = worker.args.num_verses
               /\ \E h \in 1..Len(lines) : IsChorus(lines[h])
               /\ \A h \in 1..Len(lines) :
                     /\ IsVerse(lines[h]) => BodyLen(h) = lines_per_verse
                     /\ IsChorus(lines[h]) => BodyLen(h) = Max(4, Min(6, lines_per_verse))


\* |v|
Abs(v) == IF v < 0 THEN 0 - v ELSE v

\* The samples of an output of the vocal model, whatever its wrapping and
\* its shape.
ModelOutputSamples(audio) ==
    LET tensor == IF audio.type \in {"list", "tuple"} THEN audio.items[1] ELSE audio
    IN  IF tensor.ndim = 1 THEN {tensor.data[i] : i \in 1..Len(tensor.data)}
        ELSE UNION {{tensor.data[r][i] : i \in 1..Len(tensor.data[r])} :
                        r \in 1..Len(tensor.data)}

\* The fallback tone as it is written: one channel, scaled to the headroom.
WrittenTone == Array(2, <<<<0>>, <<9500>>, <<0 - 9500>>, <<0>>>>)

\* C24: generate_vocals writes the fixed fallback tone exactly when the peak
\* absolute amplitude of the waveform of the vocal model is strictly below
\* 0.001 (10 units): a peak of 0.0005 is replaced, and a waveform with a peak
\* of 0.001 or more, 0.5 included, is kept, its samples only rescaled.
C24_SilentReplaced ==
    (/\ worker.fn = "generate_vocals"
     /\ worker.result # None
     /\ ~worker.result.value.raised) =>
        LET samples == ModelOutputSamples(worker.args.audio)
            silent == \A v \in samples : 0 - 10 < v /\ v < 10
            peak == CHOOSE p \in {Abs(v) : v \in samples} : \A v \in samples : Abs(v) <= p
            written == worker.result.value.value
        IN  /\ silent <=> written = WrittenTone
            /\ ~silent => SampleValues(written) =
                   {IF v < 0 THEN 0 - (((0 - v) * 9500) \div peak)
                    ELSE (v * 9500) \div peak : v \in samples}

C24_Witness ==
    /\ worker.fn = "generate_vocals"
    /\ worker.args.audio = Tensor(1, <<5, 0>>)
    /\ worker.result = Some(Returned(WrittenTone))


C26_MixFallsBackToVocals ==
    (worker.fn = "mix_audio_tracks" /\ worker.result # None) =>
        LET args == worker.args
            outcome == worker.result.value.outcome
        IN  /\ ~outcome.raised
            /\ args.fails \in MixSteps => outcome.value = args.vocals_path
            /\ outcome.value = args.output_path <=> args.fails = "none"
            /\ args.fails = "none" => worker.result.value.exported # None

C26_Witness ==
    /\ worker.fn = "mix_audio_tracks"
    /\ worker.args.fails = "export"
    /\ worker.result # None
    /\ worker.result.value.outcome = Returned(worker.args.vocals_path)

\* C27: when mix_audio_tracks succeeds, the exported mix lasts as long as the
\* shorter of the instrumental and the vocal track: 10 s and 6 s give 6 s,
\* whichever of the two is the shorter one.
C27_MixDuration ==
    (/\ worker.fn = "mix_audio_tracks"
     /\ worker.result # None
     /\ worker.args.fails = "none") =>
        /\ worker.result.value.exported # None
        /\ worker.result.value.exported.value.duration =
               IF worker.args.music_duration < worker.args.vocals_duration
               THEN worker.args.music_duration
               ELSE worker.args.vocals_duration

C27_Witness ==
    /\ worker.fn = "mix_audio_tracks"
    /\ worker.args.fails = "none"
    /\ worker.args.music_duration = 10
    /\ worker.args.vocals_duration = 6
    /\ worker.result # None
    /\ worker.result.value.exported # None
    /\ worker.result.value.exported.value.duration = 6


\* The calls of submit_job for a job that succeeded, and the job at rest: no
\* call for it is between its write of queued and its spawn, and no task
\* spawned for it is still running.
Accepted(r, job_id) ==
    /\ requests[r].pc = "done"
    /\ requests[r].body.job_id = job_id
    /\ requests[r].response.status_code = 200
AtRest(job_id) ==
    \A r \in Calls :
        (requests[r].pc # "idle" /\ requests[r].body.job_id = job_id)
            => requests[r].pc # "spawn" /\ ~ActiveTask(r)

\* C28: with every spawned task scheduled until it ends, a job for which a
\* call of submit_job succeeded eventually has status complete or failed,
\* and whenever every task spawned or about to be spawned for the job has
\* ended, its stored status is complete or failed, never queued or
\* processing, however the submits and the tasks interleave.
C28_JobsSettle ==
    /\ [](\A job_id \in JobIds :
              ((\E r \in Calls : Accepted(r, job_id)) /\ AtRest(job_id))
                  => Status(job_id) \in {"complete", "failed"})
    /\ \A job_id \in JobIds :
           (\E r \in Calls : Accepted(r, job_id))
               ~> (job_id \in DOMAIN JOB_STORE /\ Status(job_id) \in {"complete", "failed"})

\* Two calls succeeded for one job, both tasks have ended, and the job is
\* complete.
C28_Witness ==
    \E job_id \in JobIds :
        /\ \A r \in Calls : Accepted(r, job_id) /\ tasks[r].pc \in {"returned", "raised"}
        /\ Status(job_id) = "complete"


\* C29: a task spawned by a successful call of submit_job never finds the job
\* without image sources: no task is ever at line 61 with a copy of the job
\* that has neither image_urls nor image_paths, so the branch that stores
\* status failed with 'No image sources' is never taken.
C29_NoImagesUnreachable ==
    \A t \in Calls :
        tasks[t].pc = "check" => ImageSources(tasks[t].job) # <<>>


\* The image sources of a record, image_urls first.
SourcesOf(job) == Get(job, "image_urls", <<>>) \o Get(job, "image_paths", <<>>)

\* The image sources of a job wherever they are held: in the store, in the
\* copy of a call of submit_job, in the copy of a task.
SourceCopies(job_id) ==
    {SourcesOf(JOB_STORE[job_id])}
        \cup {SourcesOf(requests[r].job) :
                  r \in {c \in Calls : /\ requests[c].pc \in {"write", "spawn"}
                                       /\ requests[c].body.job_id = job_id}}
        \cup {SourcesOf(tasks[t].job) : t \in {c \in Calls : tasks[c].job_id = job_id}}

\* C30: a complete record is written only by the last step of a run, and
\* its captions list then has one caption per image source of the job, in
\* the order image_urls then image_paths: the run works on the sources it
\* read from the record, and all the copies of the sources of a job are the
\* same list.  A source that cannot be loaded leaves no captions behind: the
\* run stores a failed record without a captions list.
C30_OneCaptionPerSource ==
    /\ [][\A job_id \in DOMAIN JOB_STORE :
              (/\ Get(JOB_STORE'[job_id], "status", "None") = "complete"
               /\ JOB_STORE'[job_id] # JOB_STORE[job_id])
                  => \E t \in Calls :
                         /\ tasks[t].pc = "package"
                         /\ tasks[t].job_id = job_id
                         /\ tasks'[t].pc = "returned"
                         /\ LET sources == SourcesOf(tasks[t].job)
                                captions == JOB_STORE'[job_id].captions
                            IN  /\ sources # <<>>
                                /\ Len(captions) = Len(sources)
                                /\ \A i \in 1..Len(sources) :
                                       captions[i] = Caption(sources[i])]_vars
    /\ [][\A t \in Calls :
              (tasks[t].pc = "start" /\ tasks'[t].pc = "check")
                  => SourcesOf(tasks'[t].job) = SourcesOf(JOB_STORE[tasks[t].job_id])]_vars
    /\ [](\A job_id \in DOMAIN JOB_STORE : Cardinality(SourceCopies(job_id) \ {<<>>}) <= 1)
    /\ [][\A t \in Calls :
              (tasks[t].pc = "captions" /\ tasks'[t].pc # "captions")
                  => \/ /\ tasks'[t].pc = "summary"
                        /\ Len(tasks'[t].captions) = Len(SourcesOf(tasks[t].job))
                     \/ /\ tasks'[t].pc = "except"
                        /\ tasks'[t].captions = <<>>]_vars
    /\ [][\A t \in Calls :
              (tasks[t].pc = "except" /\ tasks'[t].pc # "except")
                  => /\ Get(JOB_STORE'[tasks[t].job_id], "status", "None") = "failed"
                     /\ "captions" \notin DOMAIN JOB_STORE'[tasks[t].job_id]]_vars

\* A job of two image URLs is complete with the captions of the two, in the
\* order of the URLs.
C30_Witness ==
    \E job_id \in DOMAIN JOB_STORE :
        /\ Status(job_id) = "complete"
        /\ \E image_urls \in UploadBodies :
               /\ Len(image_urls) = 2
               /\ image_urls[1] # image_urls[2]
               /\ JOB_STORE[job_id].captions = <<Caption(image_urls[1]), Caption(image_urls[2])>>

=============================================================================
